---------------------------- MODULE Spec2Model ----------------------------
(***************************************************************************)
(* Model of photovault/utils/photo_detection.py (AdvancedPhotoDetector).   *)
(*                                                                         *)
(* Number conventions.  Python floats are modelled by integers:            *)
(*   - ratios (scales, area ratio, aspect ratios) in hundredths,           *)
(*   - confidences in ten-thousandths (0.60 is 6000, 1.0 is 10000),        *)
(*   - pixel coordinates and areas as the integers they are.               *)
(* A comparison of a quotient with a float literal is modelled by the      *)
(* cross-multiplied integer comparison (w / h < 0.3 is 100*w < 30*h).      *)
(***************************************************************************)
EXTENDS Integers, Sequences, FiniteSets, TLC

VARIABLES
    detector,   \* the attributes of the AdvancedPhotoDetector instance (self.*)
    call,       \* the call in progress or just completed: operation and inputs
    result,     \* the value the call returned (a list), <<>> before it returns
    raised,     \* TRUE iff the call let an exception escape to its caller
    trace,      \* what the call did on its way: stages run, regions read, ...
    history,    \* the calls a session has completed so far, oldest first
    database,   \* the rows of the tables the quota and MFA utilities use
    threads     \* the requests running side by side: position, locals, outcome

vars == <<detector, call, result, raised, trace, history, database, threads>>

\* the photo detector touches no table and runs in its caller's thread
NoStore == database = <<>> /\ threads = <<>>

(***************************************************************************)
(* Small helpers.                                                          *)
(***************************************************************************)
Max(a, b) == IF a >= b THEN a ELSE b
Min(a, b) == IF a <= b THEN a ELSE b
Abs(a) == IF a >= 0 THEN a ELSE -a

RECURSIVE SeqMin(_)
SeqMin(s) == IF Len(s) = 1 THEN s[1] ELSE Min(s[1], SeqMin(Tail(s)))

RECURSIVE SeqMax(_)
SeqMax(s) == IF Len(s) = 1 THEN s[1] ELSE Max(s[1], SeqMax(Tail(s)))

\* [f(e) : e in s] as a sequence
SeqMap(F(_), s) == [i \in 1..Len(s) |-> F(s[i])]

\* the sequences over S of length at most n
SeqsUpTo(S, n) == UNION {[1..k -> S] : k \in 0..n}

(***************************************************************************)
(* AdvancedPhotoDetector.__init__                                          *)
(***************************************************************************)
NewDetector(fast_mode) ==
    [ min_photo_area                |-> 150000,
      max_photo_area_ratio          |-> 85,        \* 0.85
      min_aspect_ratio              |-> 30,        \* 0.3
      max_aspect_ratio              |-> 400,       \* 4.0
      enable_perspective_correction |-> TRUE,
      enable_edge_refinement        |-> TRUE,
      fast_mode                     |-> fast_mode,
      min_dimension                 |-> 300,
      scales                        |-> IF fast_mode THEN <<100>> ELSE <<100, 85>>,
      min_confidence                |-> 6000,      \* 0.60
      high_confidence               |-> 8500 ]     \* 0.85

(***************************************************************************)
(* A detection candidate (the dict the strategies build).                  *)
(***************************************************************************)
Candidate(x, y, w, h, confidence, contour, corners, method) ==
    [ x |-> x, y |-> y, width |-> w, height |-> h, area |-> w * h,
      confidence |-> confidence, contour |-> contour, corners |-> corners,
      detection_method |-> method ]

(***************************************************************************)
(* _calculate_iou: intersection and union areas of two bounding boxes.     *)
(* The quotient inter/union is kept as the pair, compared by cross         *)
(* multiplication; union = 0 yields IoU 0 as in the code.                  *)
(***************************************************************************)
CalculateIou(det1, det2) ==
    LET xi1 == Max(det1.x, det2.x)
        yi1 == Max(det1.y, det2.y)
        xi2 == Min(det1.x + det1.width, det2.x + det2.width)
        yi2 == Min(det1.y + det1.height, det2.y + det2.height)
        inter_area == Max(0, xi2 - xi1) * Max(0, yi2 - yi1)
        box1_area == det1.width * det1.height
        box2_area == det2.width * det2.height
        union_area == box1_area + box2_area - inter_area
    IN  IF union_area > 0 THEN [num |-> inter_area, den |-> union_area]
                          ELSE [num |-> 0, den |-> 1]

\* iou > 0.5
IouAboveHalf(iou) == 2 * iou.num > iou.den

(***************************************************************************)
(* sorted(detections, key=confidence, reverse=True): Python's sort is      *)
(* stable, also under reverse=True, so equal confidences keep input order. *)
(***************************************************************************)
RECURSIVE InsertByConfidence(_, _)
InsertByConfidence(s, d) ==
    IF s = <<>> THEN <<d>>
    ELSE IF s[1].confidence >= d.confidence
         THEN <<s[1]>> \o InsertByConfidence(Tail(s), d)
         ELSE <<d>> \o s

RECURSIVE SortByConfidence(_)
SortByConfidence(ds) ==
    IF ds = <<>> THEN <<>>
    ELSE InsertByConfidence(SortByConfidence(SubSeq(ds, 1, Len(ds) - 1)), ds[Len(ds)])

(***************************************************************************)
(* _merge_overlapping_detections (greedy non-maximum suppression).         *)
(***************************************************************************)
\* the inner loop: does det overlap some already merged detection?
OverlapsMerged(det, merged) ==
    \E j \in 1..Len(merged) : IouAboveHalf(CalculateIou(det, merged[j]))

\* one iteration of the outer loop on the sorted list, from index i
RECURSIVE MergeLoop(_, _, _, _)
MergeLoop(sorted, i, merged, used) ==
    IF i > Len(sorted) THEN merged
    ELSE IF i \in used THEN MergeLoop(sorted, i + 1, merged, used)
    ELSE IF OverlapsMerged(sorted[i], merged)
         THEN MergeLoop(sorted, i + 1, merged, used)
         ELSE MergeLoop(sorted, i + 1, Append(merged, sorted[i]), used \cup {i})

\* NMS whose loop starts at the second detection of the sorted list
MergeFromSecond(detections) ==
    IF detections = <<>> THEN <<>>
    ELSE MergeLoop(SortByConfidence(detections), 2, <<>>, {})

\* NMS that forgets to compare against the detections already kept
MergeKeepAll(detections) == SortByConfidence(detections)

MergeOverlappingDetections(detections) ==
    IF detections = <<>> THEN <<>>
    ELSE MergeLoop(SortByConfidence(detections), 1, <<>>, {})

(***************************************************************************)
(* Geometry of contours.  A contour is the sequence of its vertices, each  *)
(* a pair <<x, y>>, as cv2.findContours(..., CHAIN_APPROX_SIMPLE) returns  *)
(* for a polygon whose edges are horizontal, vertical or diagonal.         *)
(***************************************************************************)
Xs(pts) == [i \in 1..Len(pts) |-> pts[i][1]]
Ys(pts) == [i \in 1..Len(pts) |-> pts[i][2]]

\* floor of the square root, by bisection (np.linalg.norm, truncated)
RECURSIVE ISqrtIn(_, _, _)
ISqrtIn(n, lo, hi) ==
    IF lo >= hi THEN lo
    ELSE LET mid == (lo + hi + 1) \div 2
         IN  IF mid * mid <= n THEN ISqrtIn(n, mid, hi) ELSE ISqrtIn(n, lo, mid - 1)

ISqrt(n) == ISqrtIn(n, 0, 46340)

\* int(np.linalg.norm(p - q))
Norm(p, q) == ISqrt((p[1] - q[1]) * (p[1] - q[1]) + (p[2] - q[2]) * (p[2] - q[2]))

\* cv2.boundingRect: the pixel-inclusive upright bounding rectangle
BoundingRect(pts) ==
    [ x |-> SeqMin(Xs(pts)), y |-> SeqMin(Ys(pts)),
      w |-> SeqMax(Xs(pts)) - SeqMin(Xs(pts)) + 1,
      h |-> SeqMax(Ys(pts)) - SeqMin(Ys(pts)) + 1 ]

\* twice cv2.contourArea (the shoelace formula, unsigned)
RECURSIVE Shoelace(_, _)
Shoelace(pts, i) ==
    IF i > Len(pts) THEN 0
    ELSE LET p == pts[i]
             q == pts[(i % Len(pts)) + 1]
         IN  p[1] * q[2] - q[1] * p[2] + Shoelace(pts, i + 1)

ContourArea2(pts) == IF Len(pts) < 3 THEN 0 ELSE Abs(Shoelace(pts, 1))

\* cv2.arcLength(contour, True)
RECURSIVE ArcLengthFrom(_, _)
ArcLengthFrom(pts, i) ==
    IF i > Len(pts) THEN 0
    ELSE Norm(pts[i], pts[(i % Len(pts)) + 1]) + ArcLengthFrom(pts, i + 1)

ArcLength(pts) == IF Len(pts) < 2 THEN 0 ELSE ArcLengthFrom(pts, 1)

\* num/den in ten-thousandths, truncated (num*100 and den*100 stay in range)
Ratio(num, den) ==
    LET q == (num * 100) \div den
        r == (num * 100) % den
    IN  q * 100 + (r * 100) \div den

(***************************************************************************)
(* cv2.approxPolyDP(contour, epsilon, True) on a vertex-only polygon:      *)
(* a vertex survives iff it lies farther than epsilon from the chord       *)
(* joining its two neighbours.  epsilon is factor (thousandths) times the  *)
(* perimeter.                                                              *)
(***************************************************************************)
ChordDistance(p, a, b) ==
    LET cross == (b[1] - a[1]) * (p[2] - a[2]) - (b[2] - a[2]) * (p[1] - a[1])
        len == Norm(a, b)
    IN  IF len = 0 THEN Norm(p, a) ELSE Abs(cross) \div len

RECURSIVE KeepFar(_, _, _)
KeepFar(pts, i, eps1000) ==
    IF i > Len(pts) THEN <<>>
    ELSE LET n == Len(pts)
             prev == pts[((i + n - 2) % n) + 1]
             next == pts[(i % n) + 1]
             rest == KeepFar(pts, i + 1, eps1000)
         IN  IF ChordDistance(pts[i], prev, next) * 1000 > eps1000
             THEN <<pts[i]>> \o rest ELSE rest

ApproxPolyDP(pts, factor, perimeter) ==
    IF Len(pts) < 3 THEN pts ELSE KeepFar(pts, 1, factor * perimeter)

(***************************************************************************)
(* cv2.boxPoints(cv2.minAreaRect(contour)).  The minimum-area enclosing    *)
(* rectangle has a side collinear with an edge of the hull; for polygons   *)
(* with horizontal, vertical and diagonal edges it is the smaller of the   *)
(* upright rectangle and the rectangle at 45 degrees (extents of x+y and   *)
(* x-y).  Corner coordinates are truncated to integers.                    *)
(***************************************************************************)
MinAreaRect(pts) ==
    LET xs == Xs(pts)
        ys == Ys(pts)
        us == [i \in 1..Len(pts) |-> pts[i][1] + pts[i][2]]
        vs == [i \in 1..Len(pts) |-> pts[i][1] - pts[i][2]]
        x0 == SeqMin(xs)  x1 == SeqMax(xs)
        y0 == SeqMin(ys)  y1 == SeqMax(ys)
        u0 == SeqMin(us)  u1 == SeqMax(us)
        v0 == SeqMin(vs)  v1 == SeqMax(vs)
        upright2 == 2 * (x1 - x0) * (y1 - y0)
        diag2 == (u1 - u0) * (v1 - v0)
        P(u, v) == <<(u + v) \div 2, (u - v) \div 2>>
    IN  IF upright2 <= diag2
        THEN << <<x0, y1>>, <<x0, y0>>, <<x1, y0>>, <<x1, y1>> >>
        ELSE << P(u0, v0), P(u0, v1), P(u1, v1), P(u1, v0) >>

(***************************************************************************)
(* _get_photo_corners_refined(contour, scale)                              *)
(***************************************************************************)
EpsilonFactors == <<10, 15, 20, 25, 30, 40, 50>>   \* thousandths of the perimeter

\* the epsilon loop: the first 4-vertex approximation, or <<>> (None)
RECURSIVE BestApprox(_, _, _)
BestApprox(pts, perimeter, k) ==
    IF k > Len(EpsilonFactors) THEN <<>>
    ELSE LET approx == ApproxPolyDP(pts, EpsilonFactors[k], perimeter)
         IN  IF Len(approx) = 4 THEN approx
             ELSE IF Len(approx) < 4 THEN <<>>
             ELSE BestApprox(pts, perimeter, k + 1)

\* corners / scale (scale in hundredths)
ScaleBack(v, scale) == IF scale # 100 THEN (v * 100) \div scale ELSE v

ScalePointsBack(pts, scale) ==
    [i \in 1..Len(pts) |-> <<ScaleBack(pts[i][1], scale), ScaleBack(pts[i][2], scale)>>]

\* best_approx whatever it holds, without the fallback
CornersWithoutBox(best_approx, contour) == best_approx

\* best_approx when it has 4 vertices, else the minimum-area rectangle
CornersOrBox(best_approx, contour) ==
    IF Len(best_approx) = 4 THEN best_approx ELSE MinAreaRect(contour)

GetPhotoCornersRefined(contour, scale) ==
    ScalePointsBack(CornersOrBox(BestApprox(contour, ArcLength(contour), 1), contour),
                    scale)

(***************************************************************************)
(* _calculate_corner_angles: for each corner, the angle between the edges  *)
(* to its neighbours.  The code's tests 70 < angle < 110 and 60 < angle <  *)
(* 120 are tests on |cos angle| (< 0.342, < 0.5); CosBelow compares the    *)
(* projection of one edge on the other with the bound in thousandths.      *)
(***************************************************************************)
CosBelow(corners, i, bound1000) ==
    LET n == Len(corners)
        p1 == corners[((i + n - 2) % n) + 1]
        p2 == corners[i]
        p3 == corners[(i % n) + 1]
        dot == (p1[1] - p2[1]) * (p3[1] - p2[1]) + (p1[2] - p2[2]) * (p3[2] - p2[2])
        n1 == Norm(p1, p2)
        n3 == Norm(p3, p2)
    IN  IF n1 = 0 \/ n3 = 0 THEN TRUE      \* cos = 0 / 1e-6 = 0: a 90 degree angle
        ELSE (Abs(dot) \div n1) * 1000 < bound1000 * n3

\* how many corners have an angle whose |cos| is below the bound
CountAngles(corners, bound1000) ==
    Cardinality({i \in 1..Len(corners) : CosBelow(corners, i, bound1000)})


(***************************************************************************)
(* _is_valid_photo_region(x, y, w, h, original_area)                       *)
(***************************************************************************)
\* the predicate without its minimum-dimension test
IsValidNoMinDimension(self, x, y, w, h, original_area) ==
    /\ ~ (w * h < self.min_photo_area)
    /\ ~ (w * h * 100 > original_area * self.max_photo_area_ratio)
    /\ ~ (w * 100 < self.min_aspect_ratio * h \/ w * 100 > self.max_aspect_ratio * h)
    /\ ~ (x < 5 \/ y < 5)
    /\ ~ (2 * (w + h) < 1200)

IsValidPhotoRegion(self, x, y, w, h, original_area) ==
    LET area == w * h
        perimeter == 2 * (w + h)
    IN  /\ ~ (area < self.min_photo_area)
        /\ ~ (area * 100 > original_area * self.max_photo_area_ratio)
        /\ ~ (w * 100 < self.min_aspect_ratio * h \/ w * 100 > self.max_aspect_ratio * h)
        /\ ~ (x < 5 \/ y < 5)
        /\ ~ (w < self.min_dimension \/ h < self.min_dimension)
        /\ ~ (perimeter < 1200)

(***************************************************************************)
(* _analyze_texture: the score (ten-thousandths) from the gray variance of *)
(* the region; the variance is what the image shows there.                 *)
(***************************************************************************)
AnalyzeTexture(image, x, y, w, h, variance) ==
    LET y1 == Max(0, y)   y2 == Min(image.height, y + h)
        x1 == Max(0, x)   x2 == Min(image.width, x + w)
    IN  IF y2 <= y1 \/ x2 <= x1 THEN 0
        ELSE IF 500 < variance /\ variance < 5000 THEN 10000
        ELSE IF (200 < variance /\ variance < 500) \/ (5000 < variance /\ variance < 8000)
             THEN 5000
        ELSE 2000

(***************************************************************************)
(* _validate_perimeter_edges / _check_edge_continuity.  strips gives, for  *)
(* the top, bottom, left and right border strip of the region, the edge    *)
(* density and the projected coverage the edge map shows (hundredths).     *)
(***************************************************************************)
CheckEdgeContinuity(strip) == strip.coverage >= 50

\* a validation that is content with one strong side
ValidatePerimeterAnySide(image, strips, x, y, w, h) ==
    IF x < 0 \/ y < 0 THEN 0
    ELSE IF x + w > image.width \/ y + h > image.height THEN 0
    ELSE LET sides_with_strong_edges ==
                 Cardinality({i \in 1..4 : strips[i].density >= 12
                                           /\ CheckEdgeContinuity(strips[i])})
         IN  IF sides_with_strong_edges < 1 THEN 0
             ELSE IF sides_with_strong_edges <= 2 THEN 6500
             ELSE IF sides_with_strong_edges = 3 THEN 8500
             ELSE 10000

ValidatePerimeterEdges(image, strips, x, y, w, h) ==
    IF x < 0 \/ y < 0 THEN 0
    ELSE IF x + w > image.width \/ y + h > image.height THEN 0
    ELSE LET min_edge_density == 12
             sides_with_strong_edges ==
                 Cardinality({i \in 1..4 : strips[i].density >= min_edge_density
                                           /\ CheckEdgeContinuity(strips[i])})
         IN  IF sides_with_strong_edges < 2 THEN 0
             ELSE IF sides_with_strong_edges = 2 THEN 6500
             ELSE IF sides_with_strong_edges = 3 THEN 8500
             ELSE 10000

(***************************************************************************)
(* Confidence scoring (ten-thousandths).                                   *)
(***************************************************************************)
CommonRatios == <<10000, 13333, 15000, 17777, 12500, 7500, 6700>>

\* min([abs(aspect_ratio - ratio) for ratio in common_ratios])
MinRatioDiff(aspect_ratio) ==
    SeqMin([i \in 1..Len(CommonRatios) |-> Abs(aspect_ratio - CommonRatios[i])])

\* the scoring sums, from the factors the code derives from contour and image:
\*   area_ratio    contour area / bounding box area
\*   aspect_ratio  w / h
\*   n_corners     number of corners found, good_angles those within (70, 110)
\*   perimeter     the perimeter score, or -1 when no edge map is given
\* the fast sum with the aspect weight of the advanced scoring and no clamp
FastScoreUnclamped(area_ratio, aspect_ratio, n_corners, good_angles, perimeter) ==
    LET rectangularity_score ==
            IF area_ratio < 6000 THEN 0
            ELSE IF area_ratio < 7500 THEN 1000 + ((area_ratio - 6000) * 2) \div 3
            ELSE 2000 + ((area_ratio - 7500) * 20) \div 100
        aspect_score == (Max(0, 10000 - MinRatioDiff(aspect_ratio) * 2) * 25) \div 100
        angle_part == IF n_corners = 4 THEN (good_angles * 1500) \div 4 ELSE 0
        confidence == rectangularity_score + aspect_score + angle_part
    IN  IF perimeter >= 0
        THEN IF perimeter = 0 THEN 0
             ELSE confidence + (perimeter * 40) \div 100
        ELSE confidence + 1500

FastScore(area_ratio, aspect_ratio, n_corners, good_angles, perimeter) ==
    LET rectangularity_score ==
            IF area_ratio < 6000 THEN 0
            ELSE IF area_ratio < 7500 THEN 1000 + ((area_ratio - 6000) * 2) \div 3
            ELSE 2000 + ((area_ratio - 7500) * 20) \div 100
        aspect_score == (Max(0, 10000 - MinRatioDiff(aspect_ratio) * 2) * 20) \div 100
        angle_part == IF n_corners = 4 THEN (good_angles * 1500) \div 4 ELSE 0
        confidence == rectangularity_score + aspect_score + angle_part
    IN  IF perimeter >= 0
        THEN IF perimeter = 0 THEN 0
             ELSE Min(10000, confidence + (perimeter * 40) \div 100)
        ELSE Min(10000, confidence + 1500)

AdvancedScore(area_ratio, aspect_ratio, n_corners, good_angles, bbox_area, texture) ==
    LET aspect_score == (Max(0, 10000 - MinRatioDiff(aspect_ratio) * 2) * 25) \div 100
        angle_part == IF n_corners = 4 THEN (good_angles * 2000) \div 4 ELSE 0
        size_part == IF 5000 < bbox_area /\ bbox_area < 800000 THEN 1500
                     ELSE IF (2000 < bbox_area /\ bbox_area < 5000)
                             \/ (800000 < bbox_area /\ bbox_area < 1500000) THEN 800
                     ELSE 0
        texture_part == IF texture >= 0 THEN (texture * 10) \div 100 ELSE 0
    IN  Min(10000, (area_ratio * 30) \div 100 + aspect_score + angle_part
                   + size_part + texture_part)

\* contour_area / bbox_area if bbox_area > 0 else 0
AreaRatio(contour, w, h) ==
    IF w * h > 0 THEN Ratio(ContourArea2(contour) \div 2, w * h) ELSE 0

\* the corner factors of a scoring sum: how many corners, how many near 90 degrees
CornerCount(corners) == Len(corners)
GoodAngles(corners) == CountAngles(corners, 342)

FastScoreWith(corners, area_ratio, aspect_ratio, perimeter) ==
    FastScore(area_ratio, aspect_ratio, CornerCount(corners), GoodAngles(corners),
              perimeter)

\* _calculate_fast_confidence(contour, x, y, w, h, image, edges)
CalculateFastConfidence(shape, x, y, w, h, image) ==
    FastScoreWith(GetPhotoCornersRefined(shape.contour, 100),
                  AreaRatio(shape.contour, w, h), Ratio(w, h),
                  ValidatePerimeterEdges(image, shape.strips, x, y, w, h))

\* _calculate_advanced_confidence(contour, x, y, w, h, image, hierarchy, idx)
AdvancedScoreWith(corners, area_ratio, aspect_ratio, bbox_area, texture) ==
    AdvancedScore(area_ratio, aspect_ratio, CornerCount(corners), GoodAngles(corners),
                  bbox_area, texture)

CalculateAdvancedConfidence(shape, x, y, w, h, image) ==
    AdvancedScoreWith(GetPhotoCornersRefined(shape.contour, 100),
                      AreaRatio(shape.contour, w, h), Ratio(w, h), w * h,
                      AnalyzeTexture(image, x, y, w, h, shape.variance))

(***************************************************************************)
(* What an image shows.  An image is a record                              *)
(*   [width, height, exists, readable, shapes]                             *)
(* and each shape is an outline the preprocessing pipelines can find:      *)
(*   contour       its vertices at the image's own resolution              *)
(*   variance      gray variance inside its bounding box                   *)
(*   strips        edge density / coverage of its four border strips       *)
(*   edge_density  Canny edge density inside its bounding box (thousandths)*)
(*   seenBy        the passes whose contour extraction returns it          *)
(* The cv2 pipelines themselves are not modelled: which contours a pass    *)
(* returns is an input.                                                    *)
(***************************************************************************)
RECURSIVE Flatten(_)
Flatten(ss) == IF ss = <<>> THEN <<>> ELSE Head(ss) \o Flatten(Tail(ss))

\* s[:n]
Take(s, n) == SubSeq(s, 1, Min(n, Len(s)))

\* int(v * scale), scale in hundredths
ScaleDown(v, scale) == (v * scale) \div 100

\* the contour of a shape as found in the image resized by scale
ResizedShape(shape, scale) ==
    IF scale = 100 THEN shape
    ELSE [shape EXCEPT !.contour =
             [i \in 1..Len(shape.contour) |->
                 <<ScaleDown(shape.contour[i][1], scale),
                   ScaleDown(shape.contour[i][2], scale)>>]]

\* cv2.findContours in the edge map of the given pass
FindContours(image, pass, scale) ==
    LET Seen(shape) == pass \in shape.seenBy
        R(shape) == ResizedShape(shape, scale)
    IN  SeqMap(R, SelectSeq(image.shapes, Seen))

\* sorted(contours, key=cv2.contourArea, reverse=True)
RECURSIVE InsertByArea(_, _)
InsertByArea(s, c) ==
    IF s = <<>> THEN <<c>>
    ELSE IF ContourArea2(s[1].contour) >= ContourArea2(c.contour)
         THEN <<s[1]>> \o InsertByArea(Tail(s), c)
         ELSE <<c>> \o s

RECURSIVE SortByArea(_)
SortByArea(cs) ==
    IF cs = <<>> THEN <<>>
    ELSE InsertByArea(SortByArea(SubSeq(cs, 1, Len(cs) - 1)), cs[Len(cs)])

\* [c for c in contours if cv2.contourArea(c) > self.min_photo_area * 0.5][:limit]
FilterByArea(self, contours, limit) ==
    LET Large(c) == ContourArea2(c.contour) > self.min_photo_area
    IN  Take(SelectSeq(SortByArea(contours), Large), limit)

(***************************************************************************)
(* _fast_detection: the loop body for one contour, <<>> when skipped.      *)
(***************************************************************************)
\* if confidence > self.min_confidence: all_candidates.append({...})
AppendIfConfident(self, confidence, x, y, w, h, contour, corners, method) ==
    IF confidence > self.min_confidence
    THEN <<Candidate(x, y, w, h, confidence, contour, corners, method)>>
    ELSE <<>>

FastCandidateAt(self, image, original_area, shape, r, corners) ==
    IF ~ IsValidPhotoRegion(self, r.x, r.y, r.w, r.h, original_area) THEN <<>>
    ELSE IF Len(corners) # 4 THEN <<>>
    ELSE IF CountAngles(corners, 500) < 3 THEN <<>>
    ELSE AppendIfConfident(self,
             CalculateFastConfidence(shape, r.x, r.y, r.w, r.h, image),
             r.x, r.y, r.w, r.h, shape.contour, corners, "fast")

FastCandidate(self, image, original_area, shape) ==
    FastCandidateAt(self, image, original_area, shape, BoundingRect(shape.contour),
                    GetPhotoCornersRefined(shape.contour, 100))

FastLoop(self, image, original_area, filtered) ==
    Flatten([i \in 1..Len(filtered) |->
                FastCandidate(self, image, original_area, filtered[i])])

FastDetection(self, image, original_area) ==
    FastLoop(self, image, original_area,
             FilterByArea(self, FindContours(image, "fast", 100), 20))

(***************************************************************************)
(* _multi_scale_detection: the loop body for one contour found at one      *)
(* scale.  shape holds the contour as found in the resized image.          *)
(***************************************************************************)
MultiScaleMethod(scale) == IF scale = 100 THEN "multi_scale_1.0" ELSE "multi_scale_0.85"

MultiScaleCandidateAt(self, image, original_area, shape, scale, x, y, w, h) ==
    IF ~ IsValidPhotoRegion(self, x, y, w, h, original_area) THEN <<>>
    ELSE AppendIfConfident(self,
             CalculateAdvancedConfidence(shape, x, y, w, h, image),
             x, y, w, h, shape.contour,
             GetPhotoCornersRefined(shape.contour, scale), MultiScaleMethod(scale))

\* x, y, w, h = cv2.boundingRect(contour), scaled back to original coordinates
ScaledBackRect(r, scale) ==
    [x |-> ScaleBack(r.x, scale), y |-> ScaleBack(r.y, scale),
     w |-> ScaleBack(r.w, scale), h |-> ScaleBack(r.h, scale)]

MultiScaleCandidateIn(self, image, original_area, shape, scale, r) ==
    MultiScaleCandidateAt(self, image, original_area, shape, scale, r.x, r.y, r.w, r.h)

MultiScaleCandidate(self, image, original_area, shape, scale) ==
    MultiScaleCandidateIn(self, image, original_area, shape, scale,
                          ScaledBackRect(BoundingRect(shape.contour), scale))

MultiScaleLoop(self, image, original_area, filtered, scale) ==
    Flatten([i \in 1..Len(filtered) |->
                MultiScaleCandidate(self, image, original_area, filtered[i], scale)])

MultiScaleAt(self, image, original_area, scale) ==
    MultiScaleLoop(self, image, original_area,
        FilterByArea(self, FindContours(image, MultiScaleMethod(scale), scale), 25),
        scale)

MultiScaleDetection(self, image, original_area) ==
    Flatten([k \in 1..Len(self.scales) |->
                MultiScaleAt(self, image, original_area, self.scales[k])])

(***************************************************************************)
(* _detect_polaroids                                                       *)
(***************************************************************************)
\* confidence = 0.65
PolaroidConfidence == 6500

PolaroidCandidateAt(self, image, original_area, shape, r) ==
    IF ~ IsValidPhotoRegion(self, r.x, r.y, r.w, r.h, original_area) THEN <<>>
    ELSE IF ~ (80 * r.h <= 100 * r.w /\ 100 * r.w <= 120 * r.h) THEN <<>>
    ELSE IF r.w * r.h > 0 /\ ContourArea2(shape.contour) * 100 < 88 * 2 * (r.w * r.h)
         THEN <<>>
    ELSE IF shape.edge_density < 25 THEN <<>>
    ELSE <<Candidate(r.x, r.y, r.w, r.h, PolaroidConfidence, shape.contour,
                     GetPhotoCornersRefined(shape.contour, 100), "polaroid")>>

PolaroidCandidate(self, image, original_area, shape) ==
    PolaroidCandidateAt(self, image, original_area, shape, BoundingRect(shape.contour))

PolaroidLoop(self, image, original_area, contours) ==
    Flatten([i \in 1..Len(contours) |->
                PolaroidCandidate(self, image, original_area, contours[i])])

DetectPolaroids(self, image, original_area) ==
    PolaroidLoop(self, image, original_area, FindContours(image, "polaroid", 100))

(***************************************************************************)
(* _detect_faded_photos and _watershed_detection: the shared confidence    *)
(* with a discount (hundredths).                                           *)
(***************************************************************************)
\* confidence * 0.9, confidence * 0.85
Discounted(confidence, discount) == (confidence * discount) \div 100

DiscountedCandidateAt(self, image, original_area, shape, discount, method, r) ==
    IF ~ IsValidPhotoRegion(self, r.x, r.y, r.w, r.h, original_area) THEN <<>>
    ELSE AppendIfConfident(self,
             Discounted(CalculateAdvancedConfidence(shape, r.x, r.y, r.w, r.h, image),
                        discount),
             r.x, r.y, r.w, r.h, shape.contour,
             GetPhotoCornersRefined(shape.contour, 100), method)

DiscountedCandidate(self, image, original_area, shape, discount, method) ==
    DiscountedCandidateAt(self, image, original_area, shape, discount, method,
                          BoundingRect(shape.contour))

DiscountedLoop(self, image, original_area, contours, discount, method) ==
    Flatten([i \in 1..Len(contours) |->
        DiscountedCandidate(self, image, original_area, contours[i], discount, method)])

DetectFadedPhotos(self, image, original_area) ==
    DiscountedLoop(self, image, original_area, FindContours(image, "faded", 100),
                   90, "faded")

WatershedDetection(self, image, original_area) ==
    DiscountedLoop(self, image, original_area, FindContours(image, "watershed", 100),
                   85, "watershed")

(***************************************************************************)
(* detect_photos.  fault names the stage at which the environment raises   *)
(* ("none": nowhere) and the class of the exception.  The result records   *)
(* the returned list, whether an exception escaped, the stages run, and    *)
(* the detector's attributes after the call.                               *)
(***************************************************************************)
NoFault == [at |-> "none", kind |-> "none"]

\* the strategies of the mode, in the order they run
Strategies(self) ==
    IF self.fast_mode THEN <<"fast">>
    ELSE <<"multi_scale", "polaroid", "faded", "watershed">>

\* every strategy in either mode
AllDetectionsEveryMode(self, image, original_area) ==
    FastDetection(self, image, original_area)
    \o MultiScaleDetection(self, image, original_area)
    \o DetectPolaroids(self, image, original_area)
    \o DetectFadedPhotos(self, image, original_area)
    \o WatershedDetection(self, image, original_area)

\* all_detections at line 84: the fast strategy alone, or the four others
AllDetections(self, image, original_area) ==
    IF self.fast_mode
    THEN FastDetection(self, image, original_area)
    ELSE MultiScaleDetection(self, image, original_area)
         \o DetectPolaroids(self, image, original_area)
         \o DetectFadedPhotos(self, image, original_area)
         \o WatershedDetection(self, image, original_area)

\* merge, sort by ascending confidence, keep the first 15
ConsolidateAscending(all_detections) ==
    LET merged == SortByConfidence(MergeOverlappingDetections(all_detections))
    IN  Take([i \in 1..Len(merged) |-> merged[Len(merged) + 1 - i]], 15)

\* merge, sort by confidence, keep the last 15
ConsolidateLowest(all_detections) ==
    LET merged == SortByConfidence(MergeOverlappingDetections(all_detections))
    IN  SubSeq(merged, Len(merged) - Min(15, Len(merged)) + 1, Len(merged))

\* merge, sort by confidence, keep the top 15
Consolidate(all_detections) ==
    Take(SortByConfidence(MergeOverlappingDetections(all_detections)), 15)

\* the statements of the try block after the size check
DetectStages(self, image, fault) ==
    IF fault.at = "strategies"
    THEN [exc |-> fault.kind, value |-> <<>>, trace |-> <<Strategies(self)[1]>>]
    ELSE IF fault.at = "merge"
    THEN [exc |-> fault.kind, value |-> <<>>, trace |-> Strategies(self) \o <<"merge">>]
    ELSE [exc |-> "none",
          value |-> Consolidate(AllDetections(self, image, image.width * image.height)),
          trace |-> Strategies(self) \o <<"merge", "sort", "cap">>]

\* the outcome of the stages, as the outcome of the try block with image loaded
Loaded(r) ==
    [exc |-> r.exc, value |-> r.value, trace |-> <<"imread", "size">> \o r.trace,
     loaded |-> TRUE]

\* the try block without the test of the pixel count
DetectTryAnySize(self, image, fault) ==
    IF fault.at = "imread"
    THEN [exc |-> fault.kind, value |-> <<>>, trace |-> <<"imread">>, loaded |-> FALSE]
    ELSE IF ~ image.readable
    THEN [exc |-> "none", value |-> <<>>, trace |-> <<"imread">>, loaded |-> FALSE]
    ELSE Loaded(DetectStages(self, image, fault))

\* the try block: what it returns or raises, and whether image was assigned
DetectTry(self, image, fault) ==
    IF fault.at = "imread"
    THEN [exc |-> fault.kind, value |-> <<>>, trace |-> <<"imread">>, loaded |-> FALSE]
    ELSE IF ~ image.readable
    THEN [exc |-> "none", value |-> <<>>, trace |-> <<"imread">>, loaded |-> FALSE]
    ELSE IF image.height * image.width > 25000000
    THEN [exc |-> "none", value |-> <<>>, trace |-> <<"imread", "size">>, loaded |-> TRUE]
    ELSE Loaded(DetectStages(self, image, fault))

\* handlers that catch MemoryError only
CatchesMemoryErrorOnly(exc) == exc = "MemoryError"

\* the except clauses: which exception classes the handlers turn into []
DetectCatches(exc) == exc \in {"MemoryError", "Exception"}

\* a release on the normal return only
ReleaseOnReturn(t) == IF t.loaded /\ t.exc = "none" THEN <<"release">> ELSE <<>>

\* finally: if image is not None: del image
Release(t) == IF t.loaded THEN <<"release">> ELSE <<>>

\* handlers that switch the detector to fast mode after running out of memory
DetectFinishFallingBack(self, t) ==
    IF t.exc = "none"
    THEN [ret |-> t.value, raised |-> FALSE,
          trace |-> <<"exists">> \o t.trace \o Release(t), self |-> self]
    ELSE [ret |-> <<>>, raised |-> FALSE,
          trace |-> <<"exists">> \o t.trace \o <<"except">> \o Release(t),
          self |-> [self EXCEPT !.fast_mode = TRUE]]

\* the except clauses and the finally clause applied to the try block's outcome t
DetectFinish(self, t) ==
    IF t.exc = "none"
    THEN [ret |-> t.value, raised |-> FALSE,
          trace |-> <<"exists">> \o t.trace \o Release(t), self |-> self]
    ELSE IF DetectCatches(t.exc)
    THEN [ret |-> <<>>, raised |-> FALSE,
          trace |-> <<"exists">> \o t.trace \o <<"except">> \o Release(t), self |-> self]
    ELSE [ret |-> <<>>, raised |-> TRUE,
          trace |-> <<"exists">> \o t.trace \o Release(t), self |-> self]

DetectPhotos(self, image, fault) ==
    IF ~ image.exists
    THEN [ret |-> <<>>, raised |-> FALSE, trace |-> <<"exists">>, self |-> self]
    ELSE DetectFinish(self, DetectTry(self, image, fault))

(***************************************************************************)
(* _order_points.  Angles about the centroid are compared exactly: a point *)
(* pt is represented by n * (pt - centroid), which has integer coordinates.*)
(***************************************************************************)
RECURSIVE SeqSum(_)
SeqSum(s) == IF s = <<>> THEN 0 ELSE Head(s) + SeqSum(Tail(s))

Cross(u, v) == u[1] * v[2] - u[2] * v[1]

Minus(p, q) == <<p[1] - q[1], p[2] - q[2]>>

\* pt - centroid, times len(pts)
FromCentroid(pts) ==
    [i \in 1..Len(pts) |-> <<Len(pts) * pts[i][1] - SeqSum(Xs(pts)),
                             Len(pts) * pts[i][2] - SeqSum(Ys(pts))>>]

\* where np.arctan2(v[2], v[1]) lies: (-pi, 0), 0, (0, pi) or pi
ArcSection(v) ==
    IF v[2] < 0 THEN 0
    ELSE IF v[2] = 0 /\ v[1] >= 0 THEN 1
    ELSE IF v[2] > 0 THEN 2
    ELSE 3

\* arctan2 of u is less than arctan2 of v
AngleLess(u, v) ==
    \/ ArcSection(u) < ArcSection(v)
    \/ ArcSection(u) = ArcSection(v) /\ Cross(u, v) > 0

\* the position np.argsort(angles) gives element i (equal angles keep their order)
ArgsortRank(vs, i) ==
    1 + Cardinality({ j \in 1..Len(vs) :
                        \/ AngleLess(vs[j], vs[i])
                        \/ ~ AngleLess(vs[i], vs[j]) /\ j < i })

\* the points in the order given
Unsorted(pts, vs) == pts

\* pts[np.argsort(angles)]
SortedByAngle(pts, vs) ==
    [k \in 1..Len(pts) |-> pts[CHOOSE i \in 1..Len(pts) : ArgsortRank(vs, i) = k]]

\* np.argmin: the first index of the smallest element (counted from 0)
ArgMin(s) == (CHOOSE k \in 1..Len(s) : /\ s[k] = SeqMin(s)
                                       /\ \A j \in 1..(k - 1) : s[j] # SeqMin(s)) - 1

\* np.roll(s, -k, axis=0)
RollBack(s, k) == [i \in 1..Len(s) |-> s[((i - 1 + k) % Len(s)) + 1]]

CoordinateSums(pts) == [i \in 1..Len(pts) |-> pts[i][1] + pts[i][2]]

\* rotate so that the point with the smallest x + y comes first
TopLeftFirst(sorted_pts) == RollBack(sorted_pts, ArgMin(CoordinateSums(sorted_pts)))

\* reverse all but the first point when the cross product is negative
Clockwise(ordered) ==
    IF Len(ordered) = 4
       /\ Cross(Minus(ordered[2], ordered[1]), Minus(ordered[3], ordered[1])) < 0
    THEN <<ordered[1], ordered[4], ordered[3], ordered[2]>>
    ELSE ordered

OrderPoints(pts) ==
    IF pts = <<>> THEN <<>>
    ELSE Clockwise(TopLeftFirst(SortedByAngle(pts, FromCentroid(pts))))

(***************************************************************************)
(* _apply_perspective_transform.  env is what the surroundings decide for  *)
(* one candidate: fault names the step that raises ("none": no step) and   *)
(* mean_intensity is np.mean of the warped pixels.  The result is the      *)
(* warped image (its size and the source corners it samples) or None.      *)
(***************************************************************************)
NoRegion(reason) == [ok |-> FALSE, reason |-> reason, width |-> 0, height |-> 0,
                     corners |-> <<>>]

\* max_width, max_height from tl, tr, br, bl
WarpSize(o) ==
    [width |-> Max(Norm(o[2], o[1]), Norm(o[3], o[4])),
     height |-> Max(Norm(o[1], o[4]), Norm(o[2], o[3]))]

\* the transform without its tests of the target size
WarpUnchecked(ordered_corners, size, env) ==
    IF env.mean_intensity < 5 \/ env.mean_intensity > 250
    THEN NoRegion("suspicious intensity")
    ELSE [ok |-> TRUE, reason |-> "warped", width |-> size.width, height |-> size.height,
          corners |-> ordered_corners]

WarpChecked(ordered_corners, size, env) ==
    IF size.width = 0 \/ size.height = 0 THEN NoRegion("zero dimension")
    ELSE IF 5 * size.width < size.height \/ size.width > 5 * size.height
    THEN NoRegion("aspect ratio")
    ELSE IF size.width < 100 \/ size.height < 100 THEN NoRegion("too small")
    ELSE IF size.width > 10000 \/ size.height > 10000 THEN NoRegion("too large")
    ELSE IF env.mean_intensity < 5 \/ env.mean_intensity > 250
    THEN NoRegion("suspicious intensity")
    ELSE [ok |-> TRUE, reason |-> "warped", width |-> size.width, height |-> size.height,
          corners |-> ordered_corners]

WarpOrdered(ordered_corners, env) ==
    IF Len(ordered_corners) # 4 THEN NoRegion("corner count")
    ELSE WarpChecked(ordered_corners, WarpSize(ordered_corners), env)

ApplyPerspectiveTransform(image, corners, env) ==
    IF env.fault = "warp" THEN NoRegion("exception")
    ELSE WarpOrdered(OrderPoints(corners), env)

(***************************************************************************)
(* extract_photos: one candidate.                                          *)
(***************************************************************************)
\* where image[start:stop] begins and ends along an axis of length n
SliceIndex(k, n) == IF k < 0 THEN Max(0, k + n) ELSE Min(k, n)

SliceRange(start, stop, n) ==
    [from |-> SliceIndex(start, n),
     to |-> Max(SliceIndex(start, n), SliceIndex(stop, n))]

\* padding = max(5, int(min(w, h) * 0.02)); truncation towards zero
Padding(w, h) ==
    Max(5, IF Min(w, h) >= 0 THEN (Min(w, h) * 2) \div 100
           ELSE - (((- Min(w, h)) * 2) \div 100))

\* the crop box without the clamp to the image's width and height
CropBoxUnclamped(image, photo, padding) ==
    [x_start |-> Max(0, photo.x - padding),
     y_start |-> Max(0, photo.y - padding),
     x_end |-> photo.x + photo.width + padding,
     y_end |-> photo.y + photo.height + padding]

CropBox(image, photo, padding) ==
    [x_start |-> Max(0, photo.x - padding),
     y_start |-> Max(0, photo.y - padding),
     x_end |-> Min(image.width, photo.x + photo.width + padding),
     y_end |-> Min(image.height, photo.y + photo.height + padding)]

\* a region: the pixels it holds and where in the image they were read
WarpedRegion(warped) ==
    [path |-> "warp", width |-> warped.width, height |-> warped.height,
     corners |-> warped.corners, box |-> [x_start |-> 0, y_start |-> 0, x_end |-> 0,
                                          y_end |-> 0],
     cols |-> [from |-> 0, to |-> 0], rows |-> [from |-> 0, to |-> 0]]

SlicedRegion(box, cols, rows) ==
    [path |-> "crop", width |-> cols.to - cols.from, height |-> rows.to - rows.from,
     corners |-> <<>>, box |-> box, cols |-> cols, rows |-> rows]

\* image[y_start:y_end, x_start:x_end]
CroppedRegion(image, box) ==
    SlicedRegion(box, SliceRange(box.x_start, box.x_end, image.width),
                 SliceRange(box.y_start, box.y_end, image.height))

\* the perspective attempt of the loop body: the warped image or None
PerspectiveAttempt(self, image, photo, env) ==
    IF self.enable_perspective_correction /\ Len(photo.contour) > 0
    THEN IF env.fault = "corners" THEN NoRegion("exception")
         ELSE ApplyPerspectiveTransform(image,
                  GetPhotoCornersRefined(photo.contour, 100), env)
    ELSE NoRegion("not attempted")

\* nothing read from the image
NoRead == [path |-> "none", width |-> 0, height |-> 0, corners |-> <<>>,
           box |-> [x_start |-> 0, y_start |-> 0, x_end |-> 0, y_end |-> 0],
           cols |-> [from |-> 0, to |-> 0], rows |-> [from |-> 0, to |-> 0]]

\* no fallback: without a warped image there is no region
RegionWithoutFallback(image, photo, warped) ==
    IF warped.ok THEN WarpedRegion(warped) ELSE NoRead

RegionFrom(image, photo, warped) ==
    IF warped.ok THEN WarpedRegion(warped)
    ELSE CroppedRegion(image, CropBox(image, photo, Padding(photo.width, photo.height)))

\* _refine_edges
RefineEdges(region, env) ==
    IF env.fault = "refine" \/ region.width = 0 \/ region.height = 0 THEN region
    ELSE IF region.height > 4 /\ region.width > 4
    THEN [region EXCEPT !.width = region.width - 4, !.height = region.height - 4]
    ELSE region

Refined(self, region, env) ==
    IF self.enable_edge_refinement THEN RefineEdges(region, env) ELSE region

\* "{conf:.2f}"
TwoDecimals(confidence) == (confidence + 50) \div 100

OutputFilename(base_filename, i, photo) ==
    <<base_filename, "_photo_", i, photo.detection_method, "_conf",
      TwoDecimals(photo.confidence), ".jpg">>

ExtractedInfo(self, base_filename, i, photo, region) ==
    [original_region |-> photo,
     filename |-> OutputFilename(base_filename, i, photo),
     extracted_width |-> region.width,
     extracted_height |-> region.height,
     confidence |-> photo.confidence,
     detection_method |-> photo.detection_method,
     perspective_corrected |->
         self.enable_perspective_correction /\ Len(photo.contour) > 0]

NoInfo == [original_region |-> <<>>, filename |-> <<>>, extracted_width |-> 0,
           extracted_height |-> 0, confidence |-> 0, detection_method |-> "",
           perspective_corrected |-> FALSE]

\* what one pass through the loop body leaves: whether a result was
\* appended, the result, and the region read from the image
Outcome(i, saved, info, read, warp) ==
    [step |-> "candidate", index |-> i, saved |-> saved, info |-> info, read |-> read,
     warp |-> warp]

\* cv2.imwrite and the append
SaveRegion(self, base_filename, i, photo, env, read, region, warp) ==
    IF env.fault = "imwrite_raises" \/ region.width = 0 \/ region.height = 0
    THEN Outcome(i, FALSE, NoInfo, read, warp)
    ELSE IF env.fault = "imwrite_false" THEN Outcome(i, FALSE, NoInfo, read, warp)
    ELSE Outcome(i, TRUE, ExtractedInfo(self, base_filename, i, photo, region), read, warp)

RefineAndSave(self, base_filename, i, photo, env, region, warp) ==
    SaveRegion(self, base_filename, i, photo, env, region, Refined(self, region, env), warp)

ExtractWith(self, image, base_filename, i, photo, env, warped) ==
    IF ~ warped.ok /\ env.fault = "crop"
    THEN Outcome(i, FALSE, NoInfo, NoRead, warped.reason)
    ELSE RefineAndSave(self, base_filename, i, photo, env,
                       RegionFrom(image, photo, warped), warped.reason)

\* the body of the loop over detected_photos, for the i-th candidate
ExtractOne(self, image, base_filename, i, photo, env) ==
    ExtractWith(self, image, base_filename, i, photo, env,
                PerspectiveAttempt(self, image, photo, env))

(***************************************************************************)
(* extract_photos.                                                         *)
(***************************************************************************)
\* a loop that stops at the first candidate that fails
RECURSIVE CollectUntilFailure(_)
CollectUntilFailure(outcomes) ==
    IF outcomes = <<>> \/ ~ Head(outcomes).saved THEN <<>>
    ELSE <<Head(outcomes).info>> \o CollectUntilFailure(Tail(outcomes))

\* a loop that puts each new result in front
RECURSIVE CollectNewestFirst(_)
CollectNewestFirst(outcomes) ==
    IF outcomes = <<>> THEN <<>>
    ELSE CollectNewestFirst(Tail(outcomes))
             \o (IF Head(outcomes).saved THEN <<Head(outcomes).info>> ELSE <<>>)

\* extracted_photos after the loop
RECURSIVE Collect(_)
Collect(outcomes) ==
    IF outcomes = <<>> THEN <<>>
    ELSE (IF Head(outcomes).saved THEN <<Head(outcomes).info>> ELSE <<>>)
             \o Collect(Tail(outcomes))

ExtractOutcomes(self, image, base_filename, detected_photos, envs) ==
    [i \in 1..Len(detected_photos) |->
        ExtractOne(self, image, base_filename, i, detected_photos[i], envs[i])]

Step(name) == [step |-> name]

ExtractLoop(outcomes) ==
    [exc |-> "none", value |-> Collect(outcomes),
     trace |-> <<Step("imread"), Step("size"), Step("makedirs")>> \o outcomes,
     loaded |-> TRUE]

ExtractTry(self, image, base_filename, detected_photos, envs, fault) ==
    IF fault.at = "imread"
    THEN [exc |-> fault.kind, value |-> <<>>, trace |-> <<Step("imread")>>,
          loaded |-> FALSE]
    ELSE IF ~ (image.exists /\ image.readable)
    THEN [exc |-> "none", value |-> <<>>, trace |-> <<Step("imread")>>, loaded |-> FALSE]
    ELSE IF image.height * image.width > 30000000
    THEN [exc |-> "none", value |-> <<>>, trace |-> <<Step("imread"), Step("size")>>,
          loaded |-> TRUE]
    ELSE IF fault.at = "makedirs"
    THEN [exc |-> fault.kind, value |-> <<>>,
          trace |-> <<Step("imread"), Step("size"), Step("makedirs")>>, loaded |-> TRUE]
    ELSE ExtractLoop(ExtractOutcomes(self, image, base_filename, detected_photos, envs))

ExtractCatches(exc) == exc \in {"MemoryError", "Exception"}

ExtractRelease(t) == IF t.loaded THEN <<Step("release")>> ELSE <<>>

ExtractFinish(self, t) ==
    IF t.exc = "none"
    THEN [ret |-> t.value, raised |-> FALSE, trace |-> t.trace \o ExtractRelease(t),
          self |-> self]
    ELSE IF ExtractCatches(t.exc)
    THEN [ret |-> <<>>, raised |-> FALSE,
          trace |-> t.trace \o <<Step("except")>> \o ExtractRelease(t), self |-> self]
    ELSE [ret |-> <<>>, raised |-> TRUE, trace |-> t.trace \o ExtractRelease(t),
          self |-> self]

ExtractPhotos(self, image, base_filename, detected_photos, envs, fault) ==
    ExtractFinish(self, ExtractTry(self, image, base_filename, detected_photos, envs,
                                   fault))

(***************************************************************************)
(* Inputs.  The contours are outlines of photographs on a scan; every      *)
(* edge is horizontal, vertical or diagonal.                               *)
(***************************************************************************)
Rect(x0, y0, x1, y1) == << <<x0, y0>>, <<x1, y0>>, <<x1, y1>>, <<x0, y1>> >>

AllPasses == {"fast", "multi_scale_1.0", "multi_scale_0.85", "polaroid", "faded",
              "watershed"}

StrongStrip == [density |-> 30, coverage |-> 90]
WeakStrip == [density |-> 5, coverage |-> 20]

Shape(contour, variance, strips, edge_density, seenBy) ==
    [contour |-> contour, variance |-> variance, strips |-> strips,
     edge_density |-> edge_density, seenBy |-> seenBy]

Bordered == <<StrongStrip, StrongStrip, StrongStrip, StrongStrip>>
HalfBordered == <<StrongStrip, WeakStrip, StrongStrip, WeakStrip>>
Unbordered == <<StrongStrip, WeakStrip, WeakStrip, WeakStrip>>

ShapeCatalog ==
    { \* a 600 x 400 photo, and a second outline of nearly the same region
      Shape(Rect(100, 100, 699, 499), 1200, Bordered, 40, AllPasses),
      Shape(Rect(120, 110, 699, 499), 1200, HalfBordered, 40, AllPasses),
      \* a 400 x 500 photo elsewhere on the scan
      Shape(Rect(100, 800, 499, 1299), 1200, Bordered, 40, AllPasses),
      \* a photo reaching the right and bottom edge of a 1000 x 1400 scan
      Shape(Rect(500, 800, 999, 1399), 1200, Bordered, 40, AllPasses),
      \* a photo 3 pixels from the left edge
      Shape(Rect(3, 600, 402, 999), 1200, Bordered, 40, AllPasses),
      \* a strip 280 pixels wide
      Shape(Rect(100, 600, 379, 1199), 1200, Bordered, 40, AllPasses),
      \* a 400 x 300 photo (below the minimum area)
      Shape(Rect(550, 100, 949, 399), 1200, Bordered, 40, AllPasses),
      \* a photo covering most of a 1000 x 1400 scan
      Shape(Rect(20, 50, 969, 1349), 1200, Bordered, 40, AllPasses),
      \* a parallelogram with 45 degree corners, weak borders
      Shape(<< <<100, 700>>, <<600, 700>>, <<900, 1000>>, <<400, 1000>> >>,
            300, Unbordered, 10, AllPasses),
      \* a photo turned by 45 degrees whose right tip lies beyond the right
      \* edge of a 1000 pixel wide scan
      Shape(<< <<700, 210>>, <<999, 509>>, <<999, 891>>, <<700, 1190>>, <<210, 700>> >>,
            1200, Bordered, 40, AllPasses),
      \* a photo only the reduced-scale pass finds
      Shape(Rect(200, 200, 799, 699), 1200, Bordered, 40, {"multi_scale_0.85"}) }

MaxShapes == 2

ImageSizes == { <<1000, 1400>>, <<2000, 1500>> }

InImage(shape, width, height) ==
    \A i \in 1..Len(shape.contour) :
        /\ 0 <= shape.contour[i][1] /\ shape.contour[i][1] < width
        /\ 0 <= shape.contour[i][2] /\ shape.contour[i][2] < height

Image(width, height, exists, readable, shapes) ==
    [width |-> width, height |-> height, exists |-> exists, readable |-> readable,
     shapes |-> shapes]

\* decodable scans within the size ceiling
Scans ==
    { Image(sz[1], sz[2], TRUE, TRUE, shapes) :
        sz \in ImageSizes,
        shapes \in { ss \in SeqsUpTo(ShapeCatalog, MaxShapes) :
                        \A i \in 1..Len(ss) : \A j \in 1..Len(ss) : i # j => ss[i] # ss[j] } }

GoodScans ==
    { im \in Scans : \A i \in 1..Len(im.shapes) : InImage(im.shapes[i], im.width, im.height) }

\* a missing file, an undecodable file, a scan above and one at the ceiling
OddImages ==
    { Image(1000, 1400, FALSE, FALSE, <<>>),
      Image(1000, 1400, TRUE, FALSE, <<>>),
      Image(5001, 5000, TRUE, TRUE, <<>>),
      Image(5000, 5000, TRUE, TRUE, <<Shape(Rect(100, 100, 699, 499), 1200, Bordered, 40,
                                            AllPasses)>>) }

Images == GoodScans \cup OddImages

Faults ==
    {NoFault} \cup { [at |-> a, kind |-> k] :
                        a \in {"imread", "strategies", "merge"},
                        k \in {"MemoryError", "Exception"} }

(***************************************************************************)
(* Calls.  Init draws the call's inputs; the action runs the whole call.   *)
(***************************************************************************)
Pending(c) == c.state = "pending"
Done(op) == call.op = op /\ call.state = "done"

\* ---- detect_photos ----
InitDetect ==
    /\ detector \in {NewDetector(f) : f \in BOOLEAN}
    /\ call \in { [op |-> "detect_photos", state |-> "pending", image |-> im, fault |-> f] :
                    im \in Images, f \in Faults }
    /\ result = <<>>
    /\ raised = FALSE
    /\ trace = <<>>
    /\ history = <<>>
    /\ NoStore

\* the call returns: r is what the operation produced
Returns(r) ==
    /\ result' = r.ret
    /\ raised' = r.raised
    /\ trace' = r.trace
    /\ detector' = r.self
    /\ call' = [call EXCEPT !.state = "done"]
    /\ UNCHANGED <<history, database, threads>>

DetectPhotosCall ==
    /\ call.op = "detect_photos" /\ Pending(call)
    /\ Returns(DetectPhotos(detector, call.image, call.fault))

SpecDetect == InitDetect /\ [][DetectPhotosCall]_vars


\* ---- _merge_overlapping_detections on pre-built candidates ----
Box(x, y, w, h, confidence) == Candidate(x, y, w, h, confidence, <<>>, <<>>, "standard")

MergeConfidences == {7000, 9000}

\* boxes 600 x 400 shifted by 150 and 300 pixels (IoU 0.6 and 0.33), and
\* boxes of half and just over half the width (IoU exactly 0.5 and 0.517)
MergeCandidates ==
    { Box(b[1], b[2], b[3], b[4], c) :
        b \in { <<100, 100, 600, 400>>, <<250, 100, 600, 400>>, <<400, 100, 600, 400>>,
                <<100, 100, 300, 400>>, <<100, 100, 310, 400>> },
        c \in MergeConfidences }

MaxDetections == 3

InitMerge ==
    /\ detector = NewDetector(TRUE)
    /\ call \in { [op |-> "_merge_overlapping_detections", state |-> "pending",
                   detections |-> ds] : ds \in SeqsUpTo(MergeCandidates, MaxDetections) }
    /\ result = <<>>
    /\ raised = FALSE
    /\ trace = <<>>
    /\ history = <<>>
    /\ NoStore

MergeCall ==
    /\ call.op = "_merge_overlapping_detections" /\ Pending(call)
    /\ result' = MergeOverlappingDetections(call.detections)
    /\ call' = [call EXCEPT !.state = "done"]
    /\ UNCHANGED <<detector, raised, trace, history, database, threads>>

SpecMerge == InitMerge /\ [][MergeCall]_vars

\* the consolidator on its own and inside detect_photos
SpecNms == (InitMerge \/ InitDetect) /\ [][MergeCall \/ DetectPhotosCall]_vars

\* ---- the confidence a strategy gives a candidate, from its scoring factors ----
AreaRatios == {0, 5999, 6000, 7499, 7500, 10000}
AspectRatios == {3000, 6700, 10000, 13333, 40000}
PerimeterScores == {0, 6500, 8500, 10000}
BboxAreas == {150000, 799999, 800000, 1000000, 1500000}
TextureScores == {0, 2000, 5000, 10000}

Factors(strategy, area_ratio, aspect_ratio, good_angles, perimeter, bbox_area, texture) ==
    [op |-> "confidence", state |-> "pending", strategy |-> strategy,
     area_ratio |-> area_ratio, aspect_ratio |-> aspect_ratio, n_corners |-> 4,
     good_angles |-> good_angles, perimeter |-> perimeter, bbox_area |-> bbox_area,
     texture |-> texture]

InitConfidence ==
    /\ detector = NewDetector(FALSE)
    /\ call \in { Factors("fast", a, r, g, p, 150000, 0) :
                    a \in AreaRatios, r \in AspectRatios, g \in 0..4,
                    p \in PerimeterScores }
            \cup { Factors(s, a, r, g, 0, b, t) :
                    s \in {"multi_scale", "faded", "watershed"},
                    a \in AreaRatios, r \in AspectRatios, g \in 0..4,
                    b \in BboxAreas, t \in TextureScores }
            \cup { Factors("polaroid", 9000, 10000, 4, 0, 250000, 0) }
    /\ result = <<>>
    /\ raised = FALSE
    /\ trace = <<>>
    /\ history = <<>>
    /\ NoStore

AdvancedOf(c) ==
    AdvancedScore(c.area_ratio, c.aspect_ratio, c.n_corners, c.good_angles, c.bbox_area,
                  c.texture)

\* the confidence each strategy assigns
StrategyConfidence(c) ==
    CASE c.strategy = "fast" ->
            FastScore(c.area_ratio, c.aspect_ratio, c.n_corners, c.good_angles,
                      c.perimeter)
      [] c.strategy = "multi_scale" -> AdvancedOf(c)
      [] c.strategy = "polaroid" -> PolaroidConfidence
      [] c.strategy = "faded" -> Discounted(AdvancedOf(c), 90)
      [] c.strategy = "watershed" -> Discounted(AdvancedOf(c), 85)

ConfidenceCall ==
    /\ call.op = "confidence" /\ Pending(call)
    /\ result' = StrategyConfidence(call)
    /\ call' = [call EXCEPT !.state = "done"]
    /\ UNCHANGED <<detector, raised, trace, history, database, threads>>

\* the scoring on its own and inside detect_photos
SpecConfidence == (InitConfidence \/ InitDetect) /\ [][ConfidenceCall \/ DetectPhotosCall]_vars

\* ---- extract_photos ----
\* a candidate as a strategy builds it from a contour
FromContour(contour, r, confidence, method) ==
    Candidate(r.x, r.y, r.w, r.h, confidence, contour,
              GetPhotoCornersRefined(contour, 100), method)

\* a candidate without contour and corners
Plain(x, y, w, h) == Candidate(x, y, w, h, 7000, <<>>, <<>>, "standard")

\* a 600 x 400 photo
PhotoA == FromContour(Rect(100, 100, 699, 499),
                      BoundingRect(Rect(100, 100, 699, 499)), 9991, "fast")

\* the photo turned by 45 degrees whose right tip lies beyond the scan
Diamond == << <<700, 210>>, <<999, 509>>, <<999, 891>>, <<700, 1190>>, <<210, 700>> >>
PhotoDiamond == FromContour(Diamond, BoundingRect(Diamond), 7278, "fast")

\* the candidate the reduced-scale pass returns for a 600 x 500 photo at (200, 200)
PhotoScaled ==
    DetectPhotos(NewDetector(FALSE),
                 Image(1000, 1400, TRUE, TRUE,
                       <<Shape(Rect(200, 200, 799, 699), 1200, Bordered, 40,
                               {"multi_scale_0.85"})>>),
                 NoFault).ret[1]

\* a sliver 50 pixels wide
PhotoSliver == FromContour(Rect(100, 100, 149, 599),
                           BoundingRect(Rect(100, 100, 149, 599)), 7000, "standard")

\* a 90 x 90 outline, a horizontal line, and an outline more than 10000 wide
PhotoSmall == FromContour(Rect(100, 100, 189, 189),
                          BoundingRect(Rect(100, 100, 189, 189)), 7000, "standard")
PhotoLine == FromContour(<< <<100, 100>>, <<400, 100>> >>,
                         BoundingRect(<< <<100, 100>>, <<400, 100>> >>), 7000, "standard")
PhotoHuge == FromContour(Rect(10, 10, 10050, 2050),
                         BoundingRect(Rect(10, 10, 10050, 2050)), 7000, "standard")

\* a candidate with a contour and an empty corners field
PhotoNoCorners ==
    Candidate(100, 800, 400, 500, 7000, Rect(100, 800, 499, 1299), <<>>, "standard")

\* reaching the right and bottom edge; beyond the right edge; left of the image
PhotoEdge == Plain(500, 800, 500, 600)
PhotoOutside == Plain(1200, 100, 300, 300)
PhotoNegative == Plain(-700, 100, 600, 400)

Env(fault, mean_intensity) == [fault |-> fault, mean_intensity |-> mean_intensity]

CandidateFaults == {"none", "corners", "warp", "crop", "refine", "imwrite_false",
                    "imwrite_raises"}

\* a candidate and what its surroundings decide
Jobs ==
    { <<PhotoA, Env(f, 128)>> : f \in CandidateFaults }
    \cup { <<PhotoA, Env("none", 3)>>, <<PhotoA, Env("none", 252)>> }
    \cup { <<PhotoEdge, Env(f, 128)>> : f \in {"none", "crop", "imwrite_false"} }
    \cup { <<p, Env("none", 128)>> :
             p \in {PhotoDiamond, PhotoScaled, PhotoSliver, PhotoOutside, PhotoNegative,
                    PhotoSmall, PhotoLine, PhotoNoCorners} }

MaxCandidates == 2

\* an undecodable file, a scan above and one at the ceiling of extract_photos
OddExtractImages ==
    { Image(1000, 1400, TRUE, FALSE, <<>>),
      Image(6001, 5000, TRUE, TRUE, <<>>),
      Image(6000, 5000, TRUE, TRUE, <<>>) }

ExtractFaults ==
    { [at |-> a, kind |-> k] : a \in {"imread", "makedirs"},
                               k \in {"MemoryError", "Exception"} }

ExtractCallOf(image, jobs, fault) ==
    [op |-> "extract_photos", state |-> "pending", image |-> image,
     base_filename |-> "scan",
     detected_photos |-> [i \in 1..Len(jobs) |-> jobs[i][1]],
     envs |-> [i \in 1..Len(jobs) |-> jobs[i][2]],
     fault |-> fault]

InitExtract ==
    /\ detector = NewDetector(TRUE)
    /\ call \in { ExtractCallOf(Image(1000, 1400, TRUE, TRUE, <<>>), jobs, NoFault) :
                    jobs \in SeqsUpTo(Jobs, MaxCandidates) }
            \cup { ExtractCallOf(im, jobs, NoFault) :
                    im \in OddExtractImages, jobs \in SeqsUpTo(Jobs, 1) }
            \cup { ExtractCallOf(Image(1000, 1400, TRUE, TRUE, <<>>), jobs, f) :
                    jobs \in SeqsUpTo(Jobs, 1), f \in ExtractFaults }
            \cup { ExtractCallOf(Image(10100, 2100, TRUE, TRUE, <<>>),
                                  << <<PhotoHuge, Env("none", 128)>> >>, NoFault) }
    /\ result = <<>>
    /\ raised = FALSE
    /\ trace = <<>>
    /\ history = <<>>
    /\ NoStore

ExtractPhotosCall ==
    /\ call.op = "extract_photos" /\ Pending(call)
    /\ Returns(ExtractPhotos(detector, call.image, call.base_filename,
                             call.detected_photos, call.envs, call.fault))

SpecExtract == InitExtract /\ [][ExtractPhotosCall]_vars

\* ---- a session: calls one after another on one detector instance ----
MaxCalls == 3

SessionImages ==
    { Image(1000, 1400, TRUE, TRUE,
            <<Shape(Rect(100, 100, 699, 499), 1200, Bordered, 40, AllPasses),
              Shape(Rect(120, 110, 699, 499), 1200, HalfBordered, 40, AllPasses)>>),
      Image(1000, 1400, TRUE, TRUE,
            <<Shape(Rect(200, 200, 799, 699), 1200, Bordered, 40, {"multi_scale_0.85"}),
              Shape(Rect(100, 800, 499, 1299), 1200, Bordered, 40, AllPasses)>>),
      Image(1000, 1400, TRUE, FALSE, <<>>) }

SessionFaults == {NoFault, [at |-> "strategies", kind |-> "MemoryError"]}

\* photo_detector = AdvancedPhotoDetector(), or an instance in comprehensive mode
InitSession ==
    /\ detector \in {NewDetector(TRUE), NewDetector(FALSE)}
    /\ call = [op |-> "none", state |-> "done"]
    /\ result = <<>>
    /\ raised = FALSE
    /\ trace = <<>>
    /\ history = <<>>
    /\ NoStore

\* the call c returns r, and the session records it
SessionReturns(c, r) ==
    /\ result' = r.ret
    /\ raised' = r.raised
    /\ trace' = r.trace
    /\ detector' = r.self
    /\ call' = c
    /\ history' = Append(history, [op |-> c.op, image |-> c.image, fault |-> c.fault,
                                   ret |-> r.ret, self |-> detector])
    /\ UNCHANGED <<database, threads>>

SessionDetect ==
    /\ Len(history) < MaxCalls
    /\ \E im \in SessionImages : \E f \in SessionFaults :
          SessionReturns([op |-> "detect_photos", state |-> "done", image |-> im,
                          fault |-> f],
                         DetectPhotos(detector, im, f))

NoEnvs(photos) == [i \in 1..Len(photos) |-> Env("none", 128)]

\* extract_photos on what an earlier detect_photos returned
SessionExtract ==
    /\ Len(history) < MaxCalls
    /\ \E k \in 1..Len(history) :
          /\ history[k].op = "detect_photos"
          /\ SessionReturns([op |-> "extract_photos", state |-> "done",
                             image |-> history[k].image, fault |-> NoFault],
                            ExtractPhotos(detector, history[k].image, "scan",
                                          history[k].ret, NoEnvs(history[k].ret),
                                          NoFault))

SpecSession == InitSession /\ [][SessionDetect \/ SessionExtract]_vars

\* ---- detect_photos on a sheet of many small photos ----
\* the passes that find the photo of cell i: the fast pass and one pass of
\* comprehensive mode
GridPasses(i) ==
    {"fast", <<"multi_scale_1.0", "multi_scale_0.85", "polaroid", "faded",
               "watershed">>[(i % 5) + 1]}

\* the photo in cell i of a grid of 5 columns, cells 700 pixels apart; the
\* photos differ in size, borders and texture
GridPhoto(i) ==
    Shape(Rect(100 + 700 * (i % 5), 100 + 700 * (i \div 5),
               100 + 700 * (i % 5) + 399 + 10 * (i % 4),
               100 + 700 * (i \div 5) + 399 + 10 * (i % 3)),
          IF i % 2 = 0 THEN 1200 ELSE 300,
          IF i % 3 = 1 THEN HalfBordered ELSE Bordered, 40, GridPasses(i))

MaxGrid == 17

\* the sheets showing all cells but at most two, or but three in a row
SheetCells ==
    { SelectSeq([i \in 1..MaxGrid |-> i - 1], LAMBDA i : i \notin out) :
        out \in { o \in SUBSET (0..(MaxGrid - 1)) : Cardinality(o) <= 2 }
                 \cup { {k, k + 1, k + 2} : k \in 0..(MaxGrid - 3) } }

SheetOf(cells) ==
    Image(3600, 2900, TRUE, TRUE, [k \in 1..Len(cells) |-> GridPhoto(cells[k])])

InitCap ==
    /\ detector \in {NewDetector(f) : f \in BOOLEAN}
    /\ call \in { [op |-> "detect_photos", state |-> "pending",
                   image |-> SheetOf(cells), fault |-> NoFault] : cells \in SheetCells }
    /\ result = <<>>
    /\ raised = FALSE
    /\ trace = <<>>
    /\ history = <<>>
    /\ NoStore

SpecCap == InitCap /\ [][DetectPhotosCall]_vars

\* ---- _detect_polaroids on bright regions ----
\* a rectangle with the block of a by b pixels at its top right corner cut out
Notched(x0, y0, x1, y1, a, b) ==
    << <<x0, y0>>, <<x1 - a, y0>>, <<x1 - a, y0 + b>>, <<x1, y0 + b>>, <<x1, y1>>,
       <<x0, y1>> >>

BrightRegion(contour, edge_density) ==
    Shape(contour, 1200, Bordered, edge_density, {"polaroid"})

\* regions on either side of each test of the loop body: rectangularity
\* 242000/275000 = 0.88 and 241641/275000, aspect ratios 0.79, 0.8, 1.2 and
\* 1.21, edge densities 0.024 and 0.025, a region at the image's left edge
\* and one below the minimum area
BrightRegions ==
    { BrightRegion(Rect(100, 100, 599, 599), 40),
      BrightRegion(Notched(100, 100, 599, 649, 89, 359), 40),
      BrightRegion(Notched(100, 100, 599, 649, 90, 359), 40),
      BrightRegion(Notched(100, 100, 599, 649, 20, 20), 40),
      BrightRegion(Rect(700, 100, 1094, 599), 40),
      BrightRegion(Rect(700, 100, 1099, 599), 40),
      BrightRegion(Rect(700, 700, 1299, 1199), 40),
      BrightRegion(Rect(700, 700, 1304, 1199), 40),
      BrightRegion(Rect(100, 700, 598, 1199), 24),
      BrightRegion(Rect(100, 700, 599, 1199), 25),
      BrightRegion(Rect(2, 1300, 501, 1799), 40),
      BrightRegion(Rect(700, 1300, 1049, 1649), 40) }

MaxRegions == 2

InitPolaroid ==
    /\ detector = NewDetector(FALSE)
    /\ call \in { [op |-> "_detect_polaroids", state |-> "pending",
                   image |-> Image(2000, 2000, TRUE, TRUE, shapes)] :
                    shapes \in SeqsUpTo(BrightRegions, MaxRegions) }
    /\ result = <<>>
    /\ raised = FALSE
    /\ trace = <<>>
    /\ history = <<>>
    /\ NoStore

DetectPolaroidsCall ==
    /\ call.op = "_detect_polaroids" /\ Pending(call)
    /\ result' = DetectPolaroids(detector, call.image,
                                 call.image.width * call.image.height)
    /\ call' = [call EXCEPT !.state = "done"]
    /\ UNCHANGED <<detector, raised, trace, history, database, threads>>

SpecPolaroid == InitPolaroid /\ [][DetectPolaroidsCall]_vars

\* ---- detect_photos on a detector whose threshold was configured ----
\* detector.min_confidence = m after construction
Configured(fast_mode, m) == [NewDetector(fast_mode) EXCEPT !.min_confidence = m]

\* thresholds 0.35, 0.60, 0.65 and 0.72
MinConfidences == {3500, 6000, 6500, 7200}

InitConfigured ==
    /\ detector \in {Configured(f, m) : f \in BOOLEAN, m \in MinConfidences}
    /\ call \in { [op |-> "detect_photos", state |-> "pending",
                   image |-> SheetOf(cells), fault |-> NoFault] :
                    cells \in SeqsUpTo(0..4, MaxShapes) }
    /\ result = <<>>
    /\ raised = FALSE
    /\ trace = <<>>
    /\ history = <<>>
    /\ NoStore

SpecConfigured == InitConfigured /\ [][DetectPhotosCall]_vars

\* ---- detect_photos in fast mode on one photo with borders of every kind ----
\* a border strip by its edge density and coverage (hundredths): on and
\* just below either threshold, well above and well below both
StripKinds ==
    { [density |-> 12, coverage |-> 50], [density |-> 11, coverage |-> 50],
      [density |-> 12, coverage |-> 49], StrongStrip, WeakStrip }

InitPerimeter ==
    /\ detector = NewDetector(TRUE)
    /\ call \in { [op |-> "detect_photos", state |-> "pending",
                   image |-> Image(1000, 1400, TRUE, TRUE,
                                   <<Shape(Rect(100, 100, 699, 499), 1200, strips, 40,
                                           AllPasses)>>),
                   fault |-> NoFault] :
                    strips \in [1..4 -> StripKinds] }
    /\ result = <<>>
    /\ raised = FALSE
    /\ trace = <<>>
    /\ history = <<>>
    /\ NoStore

SpecPerimeter == InitPerimeter /\ [][DetectPhotosCall]_vars

\* ---- _order_points on the corners of convex quadrilaterals ----
MaxCoord == 2

GridPoints == (0..MaxCoord) \X (0..MaxCoord)

\* q walks round a quadrilateral turning the same (positive) way at each corner
TurnsClockwise(q) ==
    \A i \in 1..4 :
        Cross(Minus(q[(i % 4) + 1], q[i]),
              Minus(q[((i + 1) % 4) + 1], q[(i % 4) + 1])) > 0

\* 4 distinct points that are the corners of a convex quadrilateral, given
\* in any order
ConvexQuadrilaterals ==
    { pts \in [1..4 -> GridPoints] :
        /\ \A i, j \in 1..4 : i # j => pts[i] # pts[j]
        /\ \E f \in [1..4 -> 1..4] :
              /\ \A i, j \in 1..4 : i # j => f[i] # f[j]
              /\ TurnsClockwise([i \in 1..4 |-> pts[f[i]]]) }

InitOrder ==
    /\ detector = NewDetector(TRUE)
    /\ call \in { [op |-> "_order_points", state |-> "pending", pts |-> pts] :
                    pts \in ConvexQuadrilaterals }
    /\ result = <<>>
    /\ raised = FALSE
    /\ trace = <<>>
    /\ history = <<>>
    /\ NoStore

OrderPointsCall ==
    /\ call.op = "_order_points" /\ Pending(call)
    /\ result' = OrderPoints(call.pts)
    /\ call' = [call EXCEPT !.state = "done"]
    /\ UNCHANGED <<detector, raised, trace, history, database, threads>>

SpecOrder == InitOrder /\ [][OrderPointsCall]_vars

\* ---- either public entry point ----
SpecCalls == (InitDetect \/ InitExtract) /\ [][DetectPhotosCall \/ ExtractPhotosCall]_vars

(***************************************************************************)
(* quota_manager.py: increment_ai_usage called by requests running side by *)
(* side for one user.  Each request has a database session of its own; a   *)
(* step is one statement that reads or writes the database.  database is   *)
(*   quota        ai_enhancement_quota of the user's (free) plan           *)
(*   rows         the user's active user_subscription rows                 *)
(*   lock         the request holding the row lock (0: none); one row at   *)
(*                most is ever locked, as rows are never deleted           *)
(*   unique_user  whether the table refuses a second row for the user      *)
(*   refreshes    whether the SELECT ... FOR UPDATE overwrites attributes   *)
(*                of the instance the session has already loaded           *)
(* The last two are decided by the models module and the ORM, which are    *)
(* not part of the sources at hand: either value is possible.              *)
(***************************************************************************)
MaxThreads == 2

Threads == 1..MaxThreads

Quotas == {0, 1, 2}

\* no photo is being processed
NoPhotoCall ==
    /\ detector = NewDetector(TRUE)
    /\ call = [op |-> "none", state |-> "done"]
    /\ result = <<>>
    /\ raised = FALSE
    /\ trace = <<>>
    /\ history = <<>>

photoVars == <<detector, call, result, raised, trace, history>>

\* a request about to call increment_ai_usage(user)
IncrementRequest ==
    [op |-> "increment_ai_usage", pc |-> "get_user_subscription", subscription |-> 0,
     loaded |-> 0, current_usage |-> 0, ret |-> "none"]

\* the user's rows at the start: none, or one whose usage is within the quota
RowsWithin(q) == {<<>>} \cup { <<[ai_enhancements_used |-> n]>> : n \in 0..q }

InitQuota ==
    /\ NoPhotoCall
    /\ \E q \in Quotas :
          database \in
              { [table |-> "user_subscription", quota |-> q, rows |-> rows, lock |-> 0,
                 unique_user |-> u, refreshes |-> r] :
                  u \in BOOLEAN, r \in BOOLEAN, rows \in RowsWithin(q) }
    /\ threads = [t \in Threads |-> IncrementRequest]

\* the request moves on
Goes(t, next) == threads' = [threads EXCEPT ![t] = next]

\* subscription = get_user_subscription(user.id): .first() of the user's
\* active rows, in no stated order, or None
GetUserSubscription(t) ==
    /\ threads[t].op = "increment_ai_usage"
    /\ threads[t].pc = "get_user_subscription"
    /\ \E k \in 0..Len(database.rows) :
          /\ k = 0 <=> database.rows = <<>>
          /\ Goes(t, [threads[t] EXCEPT
                         !.pc = IF k = 0 THEN "create" ELSE "lock",
                         !.subscription = k,
                         !.loaded = IF k = 0 THEN 0
                                    ELSE database.rows[k].ai_enhancements_used])
    /\ UNCHANGED <<database, photoVars>>

\* if not subscription: add a row with ai_enhancements_used=1, commit,
\* return True, 1, None
CreateSubscription(t) ==
    /\ threads[t].pc = "create"
    /\ IF database.unique_user /\ database.rows # <<>>
       THEN /\ Goes(t, [threads[t] EXCEPT !.pc = "done", !.ret = "raised"])
            /\ UNCHANGED database
       ELSE /\ database' = [database EXCEPT
                               !.rows = Append(@, [ai_enhancements_used |-> 1])]
            /\ Goes(t, [threads[t] EXCEPT !.pc = "done", !.ret = "success"])
    /\ UNCHANGED photoVars

\* locked_subscription = ...with_for_update().first(): waits for the lock
LockSubscription(t) ==
    /\ threads[t].pc = "lock"
    /\ database.lock = 0
    /\ database' = [database EXCEPT !.lock = t]
    /\ Goes(t, [threads[t] EXCEPT
                   !.pc = "locked",
                   !.current_usage =
                       IF database.refreshes
                       THEN database.rows[threads[t].subscription].ai_enhancements_used
                       ELSE threads[t].loaded])
    /\ UNCHANGED photoVars

\* the quota test, then rollback or the increment and commit
IncrementOrReject(t) ==
    /\ threads[t].pc = "locked"
    /\ IF database.quota < 9999 /\ threads[t].current_usage >= database.quota
       THEN /\ database' = [database EXCEPT !.lock = 0]
            /\ Goes(t, [threads[t] EXCEPT !.pc = "done", !.ret = "rejected"])
       ELSE /\ database' = [database EXCEPT
                               !.lock = 0,
                               !.rows[threads[t].subscription].ai_enhancements_used =
                                   threads[t].current_usage + 1]
            /\ Goes(t, [threads[t] EXCEPT !.pc = "done", !.ret = "success"])
    /\ UNCHANGED photoVars

GetUserSubscriptionStep == \E t \in Threads : GetUserSubscription(t)
CreateSubscriptionStep == \E t \in Threads : CreateSubscription(t)
LockSubscriptionStep == \E t \in Threads : LockSubscription(t)
IncrementOrRejectStep == \E t \in Threads : IncrementOrReject(t)

SpecQuota ==
    InitQuota /\ [][GetUserSubscriptionStep \/ CreateSubscriptionStep
                    \/ LockSubscriptionStep \/ IncrementOrRejectStep]_vars

(***************************************************************************)
(* utils/mfa.py: verify_mfa_code and verify_backup_code.  A code is the    *)
(* sequence of its characters; the requests of one user run concurrently,  *)
(* each in a database session of its own.                                  *)
(***************************************************************************)
\* two codes as generate_backup_codes formats them: 8 hex digits, XXXX-XXXX
CodeA == <<"A", "B", "1", "2", "-", "C", "D", "3", "4">>

CodeB == <<"0", "F", "9", "E", "-", "7", "7", "A", "0">>

\* what a user may type
CodeAPlain == <<"A", "B", "1", "2", "C", "D", "3", "4">>

CodeUnissued == <<"F", "F", "F", "F", "-", "0", "0", "0", "0">>

TotpSpaced == <<"1", "2", "3", " ", "4", "5", "6">>

TotpWrong == <<"0", "0", "0", "0", "0", "0">>

SubmittedCodes == {CodeA, CodeB, CodeAPlain, CodeUnissued, TotpSpaced, TotpWrong}

\* the codes generate_backup_codes returned when MFA was set up
IssuedCodes == <<CodeA, CodeB>>

\* generate_password_hash(code, method='scrypt')
GeneratePasswordHash(code) == [method |-> "scrypt", of |-> code]

\* check_password_hash(code_hash, code)
CheckPasswordHash(code_hash, code) == code_hash = GeneratePasswordHash(code)

\* code.replace(old, '')
Replace(code, old) ==
    LET Kept(c) == c # old
    IN  SelectSeq(code, Kept)

\* '-' in code
Contains(code, ch) == \E i \in 1..Len(code) : code[i] = ch

\* the cleaned code is sent to verify_backup_code when it still looks like
\* XXXX-XXXX
IsBackupFormat(code) == Len(code) = 9 /\ Contains(code, "-")

\* the cleaned code in verify_mfa_code
Clean(code) == Replace(Replace(code, " "), "-")

\* pyotp.TOTP(secret).verify(code, valid_window=1)
TotpVerify(valid, code) == code \in valid

\* the index of the first hash that matches the code, 0 for None
MatchedIndex(backup_code_hashes, code) ==
    IF \E i \in 1..Len(backup_code_hashes) :
           CheckPasswordHash(backup_code_hashes[i], code)
    THEN CHOOSE i \in 1..Len(backup_code_hashes) :
             /\ CheckPasswordHash(backup_code_hashes[i], code)
             /\ \A j \in 1..(i - 1) : ~CheckPasswordHash(backup_code_hashes[j], code)
    ELSE 0

\* backup_code_hashes.pop(matched_index)
Pop(backup_code_hashes, i) ==
    SubSeq(backup_code_hashes, 1, i - 1)
        \o SubSeq(backup_code_hashes, i + 1, Len(backup_code_hashes))

\* the stored hashes: of every issued code, or of those not yet used
StoredCodes == {IssuedCodes, <<CodeB>>, <<>>}

HashesOf(codes) == [i \in 1..Len(codes) |-> GeneratePasswordHash(codes[i])]

\* a request about to call op(user_id, code); held tells whether the hash
\* of the code was stored when the call read the row
MfaRequest(op, code) ==
    [op |-> op, pc |-> op, submitted |-> code, code |-> code, held |-> FALSE,
     backup_code_hashes |-> <<>>, version |-> 0, ret |-> <<>>]

MfaRequests ==
    { MfaRequest(op, code) :
        op \in {"verify_mfa_code", "verify_backup_code"}, code \in SubmittedCodes }

\* the mfa_secret row of the user, if there is one, and the hashes it holds
\* at the start; sessions either see each other's commits and write over
\* them, or fail on a stale write
InitMfa ==
    /\ NoPhotoCall
    /\ database \in
          { [table |-> "mfa_secret", exists |-> e, backup_codes |-> HashesOf(codes),
             at_start |-> HashesOf(codes),
             totp |-> {Clean(TotpSpaced)}, isolation |-> iso, version |-> 0] :
              e \in BOOLEAN, codes \in StoredCodes,
              iso \in {"read committed", "serializable"} }
    /\ threads \in [Threads -> MfaRequests]

\* the call returns r; verify_mfa_code hands on what verify_backup_code
\* returned (lines 115-118)
MfaReturns(t, request, r) == Goes(t, [request EXCEPT !.pc = "done", !.ret = r])

\* verify_mfa_code up to its call of verify_backup_code or its return
VerifyMfaCode(t) ==
    /\ threads[t].pc = "verify_mfa_code"
    /\ IF ~database.exists
       THEN MfaReturns(t, threads[t], <<FALSE, "MFA not set up for this user">>)
       ELSE LET code == Clean(threads[t].code)
                held == MatchedIndex(database.backup_codes, threads[t].code) # 0
            IN  IF IsBackupFormat(code)
                THEN Goes(t, [threads[t] EXCEPT !.pc = "verify_backup_code",
                                                !.code = code, !.held = held])
                ELSE IF TotpVerify(database.totp, code)
                THEN MfaReturns(t, [threads[t] EXCEPT !.held = held],
                                <<TRUE, "Code verified">>)
                ELSE MfaReturns(t, [threads[t] EXCEPT !.held = held],
                                <<FALSE, "Invalid code">>)
    /\ UNCHANGED <<database, photoVars>>

\* verify_backup_code: the query and json.loads(mfa_secret.backup_codes)
LoadBackupCodes(t) ==
    /\ threads[t].pc = "verify_backup_code"
    /\ IF ~database.exists
       THEN MfaReturns(t, threads[t], <<FALSE, "No backup codes found">>)
       ELSE Goes(t, [threads[t] EXCEPT
                        !.pc = "check",
                        !.held = MatchedIndex(database.backup_codes, threads[t].code) # 0,
                        !.backup_code_hashes = database.backup_codes,
                        !.version = database.version])
    /\ UNCHANGED <<database, photoVars>>

\* verify_backup_code: the search, and for a match the pop, the write of
\* the remaining hashes and the commit
ConsumeBackupCode(t) ==
    /\ threads[t].pc = "check"
    /\ LET matched_index == MatchedIndex(threads[t].backup_code_hashes, threads[t].code)
       IN  IF matched_index = 0
           THEN /\ MfaReturns(t, threads[t], <<FALSE, "Invalid backup code">>)
                /\ UNCHANGED database
           ELSE IF /\ database.isolation = "serializable"
                   /\ database.version # threads[t].version
           THEN /\ MfaReturns(t, threads[t], <<FALSE, "Verification error">>)
                /\ UNCHANGED database
           ELSE /\ database' = [database EXCEPT
                                   !.backup_codes =
                                       Pop(threads[t].backup_code_hashes, matched_index),
                                   !.version = @ + 1]
                /\ MfaReturns(t, threads[t], <<TRUE, "Backup code accepted">>)
    /\ UNCHANGED photoVars

VerifyMfaCodeStep == \E t \in Threads : VerifyMfaCode(t)
LoadBackupCodesStep == \E t \in Threads : LoadBackupCodes(t)
ConsumeBackupCodeStep == \E t \in Threads : ConsumeBackupCode(t)

SpecMfa ==
    InitMfa /\ [][VerifyMfaCodeStep \/ LoadBackupCodesStep
                  \/ ConsumeBackupCodeStep]_vars


(***************************************************************************)
(* Properties.                                                             *)
(***************************************************************************)
\* intersection and union area of two axis-aligned bounding boxes
IntersectionArea(a, b) ==
    LET ox == Min(a.x + a.width, b.x + b.width) - Max(a.x, b.x)
        oy == Min(a.y + a.height, b.y + b.height) - Max(a.y, b.y)
    IN  IF ox > 0 /\ oy > 0 THEN ox * oy ELSE 0

UnionArea(a, b) == a.width * a.height + b.width * b.height - IntersectionArea(a, b)

\* C1: any two distinct candidates in the output of
\* _merge_overlapping_detections, and in the list detect_photos returns,
\* have IoU <= 0.5 (twice the intersection is at most the union).
NmsOutputsOverlapAtMostHalf ==
    (Done("_merge_overlapping_detections") \/ Done("detect_photos")) =>
        \A i \in 1..Len(result) : \A j \in 1..Len(result) :
            i # j => 2 * IntersectionArea(result[i], result[j])
                        <= UnionArea(result[i], result[j])

\* a merge of three candidates, two of them overlapping by more than half,
\* that kept two
NmsSuppressedOne ==
    /\ Done("_merge_overlapping_detections")
    /\ Len(call.detections) = 3
    /\ Len(result) = 2
    /\ \E i \in 1..3 : \E j \in 1..3 :
          i # j /\ 2 * IntersectionArea(call.detections[i], call.detections[j])
                     > UnionArea(call.detections[i], call.detections[j])

\* C2: every candidate detect_photos returns satisfies the validity
\* predicate on its returned bounding box: area at least min_photo_area and
\* at most max_photo_area_ratio of the image, aspect ratio within
\* [min_aspect_ratio, max_aspect_ratio], both sides at least min_dimension,
\* perimeter at least 1200.
ReturnedCandidatesAreValid ==
    Done("detect_photos") =>
        \A i \in 1..Len(result) :
            LET c == result[i]
                image_area == call.image.width * call.image.height
            IN  /\ c.width * c.height >= detector.min_photo_area
                /\ c.width * c.height * 100 <= detector.max_photo_area_ratio * image_area
                /\ detector.min_aspect_ratio * c.height <= 100 * c.width
                /\ 100 * c.width <= detector.max_aspect_ratio * c.height
                /\ c.width >= detector.min_dimension
                /\ c.height >= detector.min_dimension
                /\ c.width > 0 /\ c.height > 0
                /\ 2 * (c.width + c.height) >= 1200

\* detect_photos returned a candidate of the reduced-scale pass next to one
\* of another pass
ReturnedFromTwoScales ==
    /\ Done("detect_photos")
    /\ \E i \in 1..Len(result) : result[i].detection_method = "multi_scale_0.85"
    /\ \E i \in 1..Len(result) : result[i].detection_method = "multi_scale_1.0"

\* C3: no candidate detect_photos returns comes within a few pixels (the
\* 5 pixels the code uses for the left and top edge) of any of the image's
\* four outer edges.
ReturnedCandidatesClearOfAllEdges ==
    Done("detect_photos") =>
        \A i \in 1..Len(result) :
            /\ result[i].x >= 5
            /\ result[i].y >= 5
            /\ result[i].x + result[i].width <= call.image.width - 5
            /\ result[i].y + result[i].height <= call.image.height - 5

\* C5: detect_photos never raises to its caller, and returns the empty list
\* for a missing file, an undecodable image, an image above the pixel
\* ceiling, and whenever a stage raises (MemoryError included).
DetectNeverRaises ==
    Done("detect_photos") =>
        /\ ~ raised
        /\ ( \/ ~ call.image.exists
             \/ ~ call.image.readable
             \/ call.image.width * call.image.height > 25000000
             \/ call.fault # NoFault ) => result = <<>>

\* a stage of detect_photos raised an exception other than MemoryError on a
\* scan that shows photos, and the call has returned
DetectSurvivedException ==
    /\ Done("detect_photos")
    /\ call.fault.kind = "Exception"
    /\ call.fault.at = "merge"
    /\ call.image.shapes # <<>>


\* C4: the confidence any strategy gives a candidate, for every combination
\* of the scoring factors, and the confidence of every candidate
\* detect_photos returns, lies in [0, 1] (0..10000 ten-thousandths).
ConfidenceInUnitInterval ==
    /\ Done("confidence") => 0 <= result /\ result <= 10000
    /\ Done("detect_photos") =>
          \A i \in 1..Len(result) :
              0 <= result[i].confidence /\ result[i].confidence <= 10000

\* the fast scoring reached the top of the range with every factor at its best
FastScoreAtOne ==
    /\ Done("confidence")
    /\ call.strategy = "fast"
    /\ call.area_ratio = 10000 /\ call.good_angles = 4 /\ call.perimeter = 10000
    /\ result = 10000

\* C6: extract_photos returns no more results than candidates; the results'
\* original_region fields are candidates of the call, taken at strictly
\* increasing positions of the candidate list (each candidate at most once,
\* in the candidates' order).
ExtractResultsAreSubsequence ==
    Done("extract_photos") =>
        /\ Len(result) <= Len(call.detected_photos)
        /\ \E f \in [1..Len(result) -> 1..Len(call.detected_photos)] :
              /\ \A k \in 1..Len(result) :
                    result[k].original_region = call.detected_photos[f[k]]
              /\ \A k \in 1..Len(result) : \A l \in 1..Len(result) :
                    k < l => f[k] < f[l]

\* two different candidates were extracted, both with a result
ExtractedTwo ==
    /\ Done("extract_photos")
    /\ Len(call.detected_photos) = 2
    /\ call.detected_photos[1] # call.detected_photos[2]
    /\ Len(result) = 2

\* the call reached the loop over the candidates
ReachedLoop ==
    /\ call.image.exists /\ call.image.readable
    /\ call.image.width * call.image.height <= 30000000
    /\ call.fault = NoFault

\* processing candidate j on its own ends with a saved result
SucceedsAlone(j) ==
    ExtractOne(detector, call.image, call.base_filename, j, call.detected_photos[j],
               call.envs[j]).saved

\* C7: in extract_photos every candidate j whose own processing succeeds
\* has its result in the returned list, whatever happens to the other
\* candidates before or after it.
FailureSkipsOnlyThatCandidate ==
    (Done("extract_photos") /\ ReachedLoop) =>
        \A j \in 1..Len(call.detected_photos) :
            SucceedsAlone(j) =>
                \E k \in 1..Len(result) :
                    /\ result[k].original_region = call.detected_photos[j]
                    /\ result[k].filename[3] = j

\* the first candidate's image write failed and the second candidate was
\* extracted all the same
SecondSurvivedFirstsFailure ==
    /\ Done("extract_photos")
    /\ Len(call.detected_photos) = 2
    /\ call.envs[1].fault \in {"imwrite_false", "imwrite_raises", "crop"}
    /\ call.detected_photos[1] # call.detected_photos[2]
    /\ Len(result) = 1
    /\ result[1].original_region = call.detected_photos[2]

\* the loop passes of the call that appended a result
SavedOutcomes ==
    { k \in 1..Len(trace) : trace[k].step = "candidate" /\ trace[k].saved }

ScaledPassFieldsInOriginalCoordinates ==
    Done("detect_photos") =>
        \A i \in 1..Len(result) :
            result[i].detection_method = "multi_scale_0.85" =>
                \A pts \in {result[i].contour, result[i].corners} :
                    /\ Abs(BoundingRect(pts).x - result[i].x) <= 2
                    /\ Abs(BoundingRect(pts).y - result[i].y) <= 2
                    /\ Abs(BoundingRect(pts).w - result[i].width) <= 2
                    /\ Abs(BoundingRect(pts).h - result[i].height) <= 2


\* C11: in every extraction result the perspective_corrected flag is true
\* exactly when the saved image is the output of the perspective warp; it
\* is false when the crop fallback produced the saved image.
PerspectiveFlagTellsWarp ==
    Done("extract_photos") =>
        \A k \in SavedOutcomes :
            trace[k].info.perspective_corrected <=> (trace[k].read.path = "warp")

\* the filenames an extract_photos call of the session persisted
FilenamesOf(entry) == { entry.ret[k].filename : k \in 1..Len(entry.ret) }

\* C12: extract_photos never writes to a path that already holds a file:
\* the filenames of one call are pairwise distinct, and no call of a
\* session into the same output directory persists a filename an earlier
\* call persisted.
NoFilenameWrittenTwice ==
    /\ \A i \in 1..Len(history) :
          history[i].op = "extract_photos" =>
              Cardinality(FilenamesOf(history[i])) = Len(history[i].ret)
    /\ \A i \in 1..Len(history) : \A j \in 1..Len(history) :
          ( /\ i < j
            /\ history[i].op = "extract_photos"
            /\ history[j].op = "extract_photos" )
          => FilenamesOf(history[i]) \cap FilenamesOf(history[j]) = {}


\* the steps of detect_photos that process the raster
ProcessingSteps == {"fast", "multi_scale", "polaroid", "faded", "watershed", "merge",
                    "sort", "cap"}

\* the call's image decodes and nothing in its surroundings raises
Decodes == call.image.exists /\ call.image.readable /\ call.fault = NoFault

Pixels == call.image.width * call.image.height

\* C13: the size ceiling is checked before any processing.  detect_photos
\* on an image of more than 25,000,000 pixels returns [] without running a
\* strategy, the merge, the sort or the cap; extract_photos on an image of
\* more than 30,000,000 pixels returns [] without creating the output
\* directory or processing a candidate; an image of exactly the ceiling is
\* processed.
CeilingCheckedFirst ==
    /\ (Done("detect_photos") /\ Decodes) =>
          /\ Pixels > 25000000 =>
                /\ result = <<>>
                /\ \A k \in 1..Len(trace) : trace[k] \notin ProcessingSteps
          /\ Pixels = 25000000 => \E k \in 1..Len(trace) : trace[k] = "merge"
    /\ (Done("extract_photos") /\ Decodes) =>
          /\ Pixels > 30000000 =>
                /\ result = <<>>
                /\ \A k \in 1..Len(trace) : trace[k].step \notin {"makedirs", "candidate"}
          /\ Pixels = 30000000 =>
                /\ \E k \in 1..Len(trace) : trace[k].step = "makedirs"
                /\ Cardinality({k \in 1..Len(trace) : trace[k].step = "candidate"})
                      = Len(call.detected_photos)

\* detect_photos has returned from a decodable image above its ceiling
OversizeRejected ==
    /\ Done("detect_photos")
    /\ Decodes
    /\ Pixels > 25000000
    /\ result = <<>>

\* the call's imread returned a raster
RasterLoaded ==
    call.image.exists /\ call.image.readable /\ call.fault.at # "imread"

\* C14: on every exit path of detect_photos and extract_photos taken after
\* the raster was loaded (normal return, oversize return, caught
\* MemoryError, caught other exception) the raster is released, once, as
\* the call's last step; a call that loaded no raster releases none.
RasterReleasedOnEveryPath ==
    /\ Done("detect_photos") =>
          LET releases == {k \in 1..Len(trace) : trace[k] = "release"}
          IN  IF RasterLoaded THEN releases = {Len(trace)} ELSE releases = {}
    /\ Done("extract_photos") =>
          LET releases == {k \in 1..Len(trace) : trace[k].step = "release"}
          IN  IF RasterLoaded THEN releases = {Len(trace)} ELSE releases = {}

\* detect_photos ran out of memory in the merge, with the raster loaded,
\* and has returned
ReleasedAfterMemoryError ==
    /\ Done("detect_photos")
    /\ RasterLoaded
    /\ call.fault = [at |-> "merge", kind |-> "MemoryError"]
    /\ trace[Len(trace)] = "release"


\* the ways _apply_perspective_transform ends without an image
WarpRejections == {"exception", "corner count", "zero dimension", "aspect ratio",
                   "too small", "too large", "suspicious intensity"}

\* C15: whenever the perspective transform of a candidate is rejected or
\* fails, the candidate is extracted with the padded crop instead: unless
\* the crop step or the image write fails for a reason of its own, the
\* pass reads the crop box and, the crop holding pixels, appends a result.
RejectedWarpFallsBackToCrop ==
    (Done("extract_photos") /\ ReachedLoop) =>
        \A k \in 1..Len(trace) :
            ( /\ trace[k].step = "candidate"
              /\ trace[k].warp \in WarpRejections
              /\ call.envs[trace[k].index].fault
                    \notin {"crop", "imwrite_false", "imwrite_raises"} )
            => /\ trace[k].read.path = "crop"
               /\ (trace[k].read.width > 0 /\ trace[k].read.height > 0) =>
                     /\ trace[k].saved
                     /\ \E n \in 1..Len(result) :
                           /\ result[n] = trace[k].info
                           /\ result[n].original_region
                                 = call.detected_photos[trace[k].index]

\* a warp rejected by one of the size tests was replaced by the crop, and the
\* crop was saved
FellBackForSize ==
    /\ Done("extract_photos")
    /\ Len(result) = 1
    /\ \E k \in SavedOutcomes :
          /\ trace[k].warp \in {"zero dimension", "too small", "too large"}
          /\ trace[k].read.path = "crop"


\* IoU > 0.5
OverlapMoreThanHalf(a, b) == 2 * IntersectionArea(a, b) > UnionArea(a, b)

Kept == { result[k] : k \in 1..Len(result) }

Submitted == { call.detections[i] : i \in 1..Len(call.detections) }

\* the highest-confidence candidate is kept; every dropped candidate
\* overlaps a kept one of at least its confidence by more than half; a
\* candidate overlapping no other candidate by more than half is kept
NmsKeepsAndDrops ==
    /\ \E r \in Kept : \A d \in Submitted : r.confidence >= d.confidence
    /\ \A d \in Submitted \ Kept :
          \E r \in Kept : OverlapMoreThanHalf(d, r) /\ r.confidence >= d.confidence
    /\ \A i \in 1..Len(call.detections) :
          (\A j \in 1..Len(call.detections) :
              j # i => ~ OverlapMoreThanHalf(call.detections[i], call.detections[j]))
          => call.detections[i] \in Kept

\* C16 (as claimed): for a non-empty input the highest-confidence candidate
\* is kept, every dropped candidate has IoU > 0.5 with a kept candidate of
\* at least its confidence, a candidate with IoU <= 0.5 to every other is
\* kept, and of two candidates with IoU > 0.5 only the higher-confidence
\* one is in the output.
NmsOnlyHigherOfPairKept ==
    (Done("_merge_overlapping_detections") /\ call.detections # <<>>) =>
        /\ NmsKeepsAndDrops
        /\ \A a \in Submitted : \A b \in Submitted :
              (OverlapMoreThanHalf(a, b) /\ a.confidence > b.confidence) => b \notin Kept

\* C16 (amended): as above, but of two candidates with IoU > 0.5 the
\* lower-confidence one is in the output only if the higher-confidence one
\* is not (the higher one having been suppressed by a third candidate).
NmsNeverKeepsBothOfPair ==
    (Done("_merge_overlapping_detections") /\ call.detections # <<>>) =>
        /\ NmsKeepsAndDrops
        /\ \A a \in Submitted : \A b \in Submitted :
              (OverlapMoreThanHalf(a, b) /\ a.confidence > b.confidence)
                  => ~ (a \in Kept /\ b \in Kept)

\* three candidates in a chain: the middle one was dropped for the first,
\* and the third, which overlaps only the middle one and has a lower
\* confidence than it, was kept
NmsKeptLowerOfPair ==
    /\ Done("_merge_overlapping_detections")
    /\ Len(call.detections) = 3
    /\ \E a \in Submitted \ Kept : \E b \in Kept :
          OverlapMoreThanHalf(a, b) /\ a.confidence > b.confidence

\* C17: the list detect_photos returns is ordered by non-increasing
\* confidence.
ReturnedInConfidenceOrder ==
    Done("detect_photos") =>
        \A i \in 1..(Len(result) - 1) : result[i].confidence >= result[i + 1].confidence

\* detect_photos returned two candidates of different confidence
ReturnedTwoConfidences ==
    /\ Done("detect_photos")
    /\ Len(result) = 2
    /\ result[1].confidence > result[2].confidence

\* the candidates that survive NMS in the finished call of detect_photos
Survivors ==
    MergeOverlappingDetections(
        AllDetections(detector, call.image, call.image.width * call.image.height))

\* ret is at most 15 of the survivors, and no survivor left out has a
\* confidence above that of a returned one
TopOfSurvivors(ret, survivors) ==
    /\ Len(ret) <= 15
    /\ Len(ret) = Min(15, Len(survivors))
    /\ \A i \in 1..Len(ret) : \E j \in 1..Len(survivors) : ret[i] = survivors[j]
    /\ \A j \in 1..Len(survivors) :
          (\A i \in 1..Len(ret) : ret[i] # survivors[j]) =>
              \A i \in 1..Len(ret) : survivors[j].confidence <= ret[i].confidence

\* C18: detect_photos returns at most 15 candidates, and when more than 15
\* survive NMS the returned ones are the 15 of highest confidence: no
\* survivor that was dropped has a confidence strictly greater than that of
\* a returned one.
ReturnsTopFifteen ==
    (Done("detect_photos") /\ \E k \in 1..Len(trace) : trace[k] = "cap") =>
        TopOfSurvivors(result, Survivors)

\* detect_photos returned 15 of 17 survivors, and one of the two dropped
\* has a confidence below that of every returned one
CapDroppedLowest ==
    /\ Done("detect_photos")
    /\ Len(result) = 15
    /\ Len(Survivors) = 17
    /\ \E j \in 1..17 :
          \A i \in 1..15 : Survivors[j].confidence < result[i].confidence

\* the steps of the trace that are strategies
StrategySteps ==
    SelectSeq(trace, LAMBDA t : t \in {"fast", "multi_scale", "polaroid", "faded",
                                       "watershed", "merge"})

\* what the four strategies of comprehensive mode find in the image of the call
FourStrategies ==
    LET area == call.image.width * call.image.height
    IN  MultiScaleDetection(detector, call.image, area)
        \o DetectPolaroids(detector, call.image, area)
        \o DetectFadedPhotos(detector, call.image, area)
        \o WatershedDetection(detector, call.image, area)

\* ret is what one greedy NMS pass over found leaves: no two of ret overlap
\* by more than half, every one of ret was found, and every candidate found
\* is in ret or overlaps by more than half one of ret that is no less
\* confident
OnePassOver(ret, found) ==
    /\ \A i, j \in 1..Len(ret) :
          i # j => ~ IouAboveHalf(CalculateIou(ret[i], ret[j]))
    /\ \A i \in 1..Len(ret) : \E k \in 1..Len(found) : ret[i] = found[k]
    /\ \A k \in 1..Len(found) :
          \E i \in 1..Len(ret) :
              \/ ret[i] = found[k]
              \/ /\ IouAboveHalf(CalculateIou(found[k], ret[i]))
                 /\ ret[i].confidence >= found[k].confidence

\* C19: in fast mode detect_photos runs the fast strategy alone and every
\* candidate it returns has detection_method "fast"; in comprehensive mode
\* the four strategies multi-scale, polaroid, faded and watershed all run,
\* and what is returned is the outcome of one NMS pass over the candidates
\* of all four.
ModeSelectsStrategies ==
    (Done("detect_photos") /\ \E k \in 1..Len(trace) : trace[k] = "cap") =>
        IF detector.fast_mode
        THEN /\ StrategySteps = <<"fast", "merge">>
             /\ \A i \in 1..Len(result) : result[i].detection_method = "fast"
        ELSE /\ StrategySteps = <<"multi_scale", "polaroid", "faded", "watershed",
                                  "merge">>
             /\ Len(result) < 15 => OnePassOver(result, FourStrategies)

\* detect_photos in comprehensive mode returned fewer than 15 candidates,
\* among them candidates of two strategies other than multi-scale
ReturnedFromTwoStrategies ==
    /\ Done("detect_photos")
    /\ ~ detector.fast_mode
    /\ Len(result) < 15
    /\ \E i, j \in 1..Len(result) :
          /\ result[i].detection_method \in {"polaroid", "faded", "watershed"}
          /\ result[j].detection_method \in {"polaroid", "faded", "watershed"}
          /\ result[i].detection_method # result[j].detection_method

\* the bright regions of the image whose contour is that of candidate c
RegionsOf(c) ==
    {k \in 1..Len(call.image.shapes) : call.image.shapes[k].contour = c.contour}

\* the tests the claim puts on an emitted region, rectangularity > 0.88
PassesPolaroidTests(shape, r) ==
    /\ IsValidPhotoRegion(detector, r.x, r.y, r.w, r.h,
                          call.image.width * call.image.height)
    /\ 80 * r.h <= 100 * r.w /\ 100 * r.w <= 120 * r.h
    /\ ContourArea2(shape.contour) * 100 > 88 * 2 * (r.w * r.h)
    /\ shape.edge_density >= 25

\* C21: the Polaroid strategy emits a candidate only for a region whose
\* bounding box passes the validity predicate, whose aspect ratio is in
\* [0.8, 1.2], whose rectangularity is strictly greater than 0.88 and whose
\* edge density is at least 0.025; a region of rectangularity exactly 0.88
\* is not emitted.
PolaroidEmitsAboveRectangularity ==
    Done("_detect_polaroids") =>
        \A i \in 1..Len(result) :
            /\ result[i].detection_method = "polaroid"
            /\ RegionsOf(result[i]) # {}
            /\ \A k \in RegionsOf(result[i]) :
                  PassesPolaroidTests(call.image.shapes[k],
                                      BoundingRect(call.image.shapes[k].contour))

\* C22: every candidate detect_photos returns has a corners field of
\* exactly 4 points, whether the polygon approximation of its contour found
\* 4 vertices or the minimum-area rectangle was used.
ReturnedCornersAreFour ==
    Done("detect_photos") =>
        \A i \in 1..Len(result) : Len(result[i].corners) = 4

\* detect_photos returned a candidate for whose contour no epsilon gives a
\* 4-vertex approximation, so that its corners are those of the
\* minimum-area rectangle
ReturnedBoxCorners ==
    /\ Done("detect_photos")
    /\ \E i \in 1..Len(result) :
          /\ BestApprox(result[i].contour, ArcLength(result[i].contour), 1) = <<>>
          /\ result[i].detection_method = "multi_scale_1.0"
          /\ result[i].corners = MinAreaRect(result[i].contour)

\* C23: whatever the detector's min_confidence, every candidate
\* detect_photos returns, from whichever strategy, has a confidence strictly
\* greater than min_confidence.
ReturnedAboveMinConfidence ==
    Done("detect_photos") =>
        \A i \in 1..Len(result) : result[i].confidence > detector.min_confidence

\* squared distance of two points
Dist2(p, q) == (p[1] - q[1]) * (p[1] - q[1]) + (p[2] - q[2]) * (p[2] - q[2])

\* n is the integer part of the longer of two edges of squared lengths a, b
IntegerPartOfLonger(n, a, b) ==
    /\ n >= 0
    /\ n * n <= Max(a, b)
    /\ (n + 1) * (n + 1) > Max(a, b)

\* the candidates of the finished extract_photos call whose warp returned
\* an image
Warps == {k \in 1..Len(trace) : trace[k].step = "candidate" /\ trace[k].warp = "warped"}

StrongSides(shape) ==
    Cardinality({i \in 1..4 : shape.strips[i].density >= 12
                              /\ shape.strips[i].coverage >= 50})

\* the perimeter score the claim gives n strong sides
ScoreOfSides(n) == IF n < 2 THEN 0 ELSE IF n = 2 THEN 6500 ELSE IF n = 3 THEN 8500 ELSE 10000

\* the confidence of the fast scoring for shape with the given perimeter score
FastConfidenceWith(shape, r, perimeter) ==
    FastScoreWith(GetPhotoCornersRefined(shape.contour, 100),
                  AreaRatio(shape.contour, r.w, r.h), Ratio(r.w, r.h), perimeter)

\* the confidence the fast strategy computes for shape
FastConfidenceOf(shape, r) ==
    CalculateFastConfidence(shape, r.x, r.y, r.w, r.h, call.image)

\* C28: in fast mode a region with fewer than 2 border strips of edge
\* density >= 0.12 and coverage >= 0.50 has confidence 0 and is never
\* returned; a returned
\* candidate has at least 2 such sides, and its confidence is the one the
\* perimeter score 0.65, 0.85 or 1.0 for 2, 3 or 4 strong sides gives.
FastNeedsTwoStrongSides ==
    (Done("detect_photos") /\ detector.fast_mode) =>
        /\ \A k \in 1..Len(call.image.shapes) :
              StrongSides(call.image.shapes[k]) < 2 =>
                  /\ FastConfidenceOf(call.image.shapes[k],
                                      BoundingRect(call.image.shapes[k].contour)) = 0
                  /\ \A i \in 1..Len(result) :
                        result[i].contour # call.image.shapes[k].contour
        /\ \A i \in 1..Len(result) : \A k \in RegionsOf(result[i]) :
              /\ StrongSides(call.image.shapes[k]) >= 2
              /\ result[i].confidence =
                     FastConfidenceWith(call.image.shapes[k],
                                        BoundingRect(call.image.shapes[k].contour),
                                        ScoreOfSides(StrongSides(call.image.shapes[k])))

\* a photo with exactly 2 strong sides, one of them on both thresholds, was
\* returned in fast mode
ReturnedWithTwoStrongSides ==
    /\ Done("detect_photos")
    /\ detector.fast_mode
    /\ Len(result) = 1
    /\ StrongSides(call.image.shapes[1]) = 2
    /\ call.image.shapes[1].strips[1] = [density |-> 12, coverage |-> 50]

\* C29: for 4 distinct points that form a convex quadrilateral
\* _order_points returns a permutation of exactly those points, in one
\* clockwise winding (top-left, top-right, bottom-right, bottom-left in
\* image coordinates), whose first element has the minimum x + y.
OrderPointsWindsClockwise ==
    Done("_order_points") =>
        /\ Len(result) = 4
        /\ \A i \in 1..4 : \E j \in 1..4 : result[j] = call.pts[i]
        /\ \A i, j \in 1..4 : i # j => result[i] # result[j]
        /\ TurnsClockwise(result)
        /\ \A i \in 1..4 :
              result[1][1] + result[1][2] <= call.pts[i][1] + call.pts[i][2]

\* corners given in an order that crosses the quadrilateral were put in
\* order, and two of them share the minimum x + y
OrderedCrossedCorners ==
    /\ Done("_order_points")
    /\ Cross(Minus(call.pts[2], call.pts[1]), Minus(call.pts[3], call.pts[2])) < 0
    /\ Cross(Minus(call.pts[3], call.pts[2]), Minus(call.pts[4], call.pts[3])) > 0
    /\ \E i \in 2..4 : result[i][1] + result[i][2] = result[1][1] + result[1][2]
    /\ result # call.pts

\* ret takes each of its elements from a place of its own in detections
SelectedFrom(ret, detections) ==
    \E f \in [1..Len(ret) -> 1..Len(detections)] :
        /\ \A i, j \in 1..Len(ret) : i # j => f[i] # f[j]
        /\ \A i \in 1..Len(ret) : ret[i] = detections[f[i]]

\* C30: _merge_overlapping_detections only selects: its output is a
\* sub-collection of its input, every kept candidate unmodified, and
\* applying it to its own output returns the same list in the same order.
MergeSelectsAndIsIdempotent ==
    Done("_merge_overlapping_detections") =>
        /\ SelectedFrom(result, call.detections)
        /\ MergeOverlappingDetections(result) = result

\* of 3 candidates one was dropped and the 2 kept were returned in another
\* order than they were submitted in
MergeReorderedTwoOfThree ==
    /\ Done("_merge_overlapping_detections")
    /\ Len(call.detections) = 3
    /\ Len(result) = 2
    /\ \E i, j \in 1..3 :
          i < j /\ result[1] = call.detections[j] /\ result[2] = call.detections[i]
                /\ result[1] # result[2]

\* the requests whose call of increment_ai_usage returned success
Successes == {t \in DOMAIN threads : threads[t].ret = "success"}

\* the requests whose call returned (True, "Backup code accepted")
Accepted == {t \in DOMAIN threads : threads[t].ret = <<TRUE, "Backup code accepted">>}

\* code is one of the codes generate_backup_codes issued
Issued(code) == \E i \in 1..Len(IssuedCodes) : IssuedCodes[i] = code

\* C25: verify_mfa_code called with a backup code in its issued XXXX-XXXX
\* format whose hash is stored, while no other request submits an issued
\* code, returns (True, "Backup code accepted") and the hash of the code
\* is no longer stored.
MfaAcceptsIssuedBackupCode ==
    (threads # <<>> /\ database.table = "mfa_secret") =>
        \A t \in DOMAIN threads :
            ( /\ threads[t].op = "verify_mfa_code"
              /\ threads[t].pc = "done"
              /\ database.exists
              /\ Issued(threads[t].submitted)
              /\ threads[t].held
              /\ \A u \in DOMAIN threads : u # t => ~Issued(threads[u].submitted) )
            => /\ threads[t].ret = <<TRUE, "Backup code accepted">>
               /\ MatchedIndex(database.backup_codes, threads[t].submitted) = 0

\* C26: no two verify_backup_code calls are accepted with the same code,
\* the hash of an accepted code is no longer stored, and the stored list
\* has lost one hash for each acceptance.
BackupCodeAcceptedOnce ==
    (threads # <<>> /\ database.table = "mfa_secret") =>
        /\ \A t, u \in Accepted :
              (t # u /\ threads[t].op = "verify_backup_code"
                     /\ threads[u].op = "verify_backup_code")
                  => threads[t].code # threads[u].code
        /\ \A t \in Accepted :
              MatchedIndex(database.backup_codes, threads[t].code) = 0
        /\ Len(database.backup_codes) + Cardinality(Accepted) = Len(database.at_start)

\* C24: under any interleaving of increment_ai_usage calls for one user
\* whose plan has a finite quota, no stored ai_enhancements_used exceeds
\* the quota and no more calls return success than the quota allows, also
\* when the user has no subscription row at the start.
QuotaNeverExceeded ==
    (threads # <<>> /\ database.table = "user_subscription") =>
        /\ \A k \in 1..Len(database.rows) :
              database.rows[k].ai_enhancements_used <= database.quota
        /\ Cardinality(Successes) <= database.quota

\* C20: extract_photos warps a candidate only if perspective correction is
\* enabled and the candidate carries 4 corner points; a candidate whose
\* corners field is empty is read by the padded crop, whatever its contour.
WarpOnlyWithFourCorners ==
    Done("extract_photos") =>
        \A k \in 1..Len(trace) :
            (trace[k].step = "candidate" /\ trace[k].read.path # "none") =>
                LET photo == call.detected_photos[trace[k].index]
                IN  /\ trace[k].read.path = "warp" =>
                          /\ detector.enable_perspective_correction
                          /\ Len(photo.corners) = 4
                    /\ Len(photo.corners) = 0 => trace[k].read.path = "crop"

=============================================================================
